---- MODULE Spec2Model ----
(***************************************************************************)
(* A model of localbooru's Tag Store and enrichment job pipeline           *)
(* (src/src/localbooru/database.py, ingestion.py, auto_tagging.py,         *)
(* clip.py, cli.py).                                                       *)
(*                                                                         *)
(* The SQLite file is modelled as a committed state `db`, read by every    *)
(* connection, and the working view `conn` of the one connection           *)
(* LocalBooruDatabase shares between all threads (self._connection).       *)
(* Python's sqlite3 opens a transaction implicitly before the first        *)
(* INSERT/UPDATE/DELETE of a connection and `with connection:` commits or  *)
(* rolls back when the block is left; a SELECT opens no transaction.       *)
(* SQLite admits one writer at a time: `writer` names the connection that  *)
(* holds the write lock.                                                   *)
(***************************************************************************)
EXTENDS Integers, Sequences, FiniteSets, Bags, TLC

\* ---------------------------------------------------------------- bounds
NumImages == 2
MaxVer == 2
MaxLen == 2
MaxTagRows == 3
BatchSize == 2
MaxIngests == 2

\* test_apply_auto_tags_retries_when_locked and
\* test_store_clip_vector_retries_when_locked: the write is locked twice.
LockedAttempts == 2

Images == 1..NumImages
Versions == 1..MaxVer

\* ------------------------------------------------------------- tag rows
\* The columns of a tags row that the store's logic reads (tag, emphasis and
\* raw are carried along unread and left out).
Kinds == {"prompt", "rating"}
Norms == {"a", "b"}
Sources == {"embedded", "auto", "dbrating"}
Weights == {-1, 1}

TagRecord == [kind : Kinds, norm : Norms, weight : Weights, source : Sources]

Key(t) == <<t.kind, t.norm>>

RECURSIVE SeqToBag(_)
SeqToBag(s) ==
    IF s = <<>> THEN EmptyBag ELSE SetToBag({Head(s)}) (+) SeqToBag(Tail(s))

RECURSIVE SumCopies(_, _)
SumCopies(b, S) ==
    IF S = {} THEN 0
    ELSE LET r == CHOOSE x \in S : TRUE
         IN CopiesIn(r, b) + SumCopies(b, S \ {r})

\* Bag b restricted to the rows in S, with their multiplicities.
Restrict(b, S) == [r \in BagToSet(b) \cap S |-> b[r]]

Distinct(s) == \A i, j \in 1..Len(s) : Key(s[i]) = Key(s[j]) => i = j

\* Lists of at most MaxLen tag records with pairwise distinct (kind, norm), as
\* collect_tags and generate_wd14_tags build them.
TagLists(S) ==
    {s \in UNION {[1..n -> S] : n \in 0..MaxLen} : Distinct(s)}

\* ------------------------------------------------------------ job rows
Statuses == {"pending", "processing", "ready", "error", "skipped"}
Models == {"m1", "m2"}
NoJob == [status |-> "none", model |-> "none"]
JobRow == [status : Statuses, model : Models]


\* -------------------------------------------------------- the store
\* A view of the database file: images[i] is the content version (mtime and
\* size) stored in image i's row, 0 when it has no row; tags[i] the bag of its
\* tags rows; auto[i] and clip[i] its rows in auto_tag_jobs and
\* clip_embeddings; autoQ and clipQ the job rows in ascending queued_at order.
EmptyStore ==
    [images |-> [i \in Images |-> 0],
     tags   |-> [i \in Images |-> EmptyBag],
     auto   |-> [i \in Images |-> NoJob],
     clip   |-> [i \in Images |-> NoJob],
     autoQ  |-> <<>>,
     clipQ  |-> <<>>]

Without(q, i) == SelectSeq(q, LAMBDA x : x # i)

lookup_image(d, i) == d.images[i]

NormsOf(b) == {r.norm : r \in BagToSet(b)}
KeysOf(b) == {Key(r) : r \in BagToSet(b)}

\* UPDATE tags SET kind=?, weight=?, source=? WHERE image_id=? AND norm=?:
\* every row with that norm takes the record's columns.
UpdateTagRows(b, t) ==
    LET hit == {r \in BagToSet(b) : r.norm = t.norm}
        n == SumCopies(b, hit)
        rest == Restrict(b, BagToSet(b) \ hit)
    IN IF n = 0 THEN b ELSE rest (+) (t :> n)

RECURSIVE UpsertTagLoop(_, _, _, _)
UpsertTagLoop(b, T, to_insert, to_update) ==
    IF T = <<>> THEN b
    ELSE LET t == Head(T)
             b1 == IF t.norm \in to_insert THEN b (+) SetToBag({t})
                   ELSE IF t.norm \in to_update THEN UpdateTagRows(b, t)
                   ELSE b
         IN UpsertTagLoop(b1, Tail(T), to_insert, to_update)

\* The INSERT or UPDATE of the images row.
UpsertImageRow(d, i, ver) == [d EXCEPT !.images[i] = ver]

\* The replacement of the image's tags rows: all deleted when no tags are
\* given, else a diff by norm alone.
UpsertTagRows(d, i, T) ==
    LET b == d.tags[i]
        existing_tags == NormsOf(b)
        new_norms == {T[k].norm : k \in 1..Len(T)}
        to_delete == existing_tags \ new_norms
        to_insert == new_norms \ existing_tags
        to_update == existing_tags \cap new_norms
        kept == Restrict(b, {r \in BagToSet(b) : r.norm \notin to_delete})
    IN IF T = <<>> THEN [d EXCEPT !.tags[i] = EmptyBag]
       ELSE [d EXCEPT !.tags[i] = UpsertTagLoop(kept, T, to_insert, to_update)]

upsert_image_record(d, i, ver, T) == UpsertTagRows(UpsertImageRow(d, i, ver), i, T)

\* to_add with the 'missing' filter on the stored (kind, norm) pairs dropped.
ToAdd_unfiltered(b, T, strategy) == SelectSeq(T, LAMBDA t : t.weight >= 0)

\* The tags apply_auto_tags inserts, by strategy.
ToAdd(b, T, strategy) ==
    IF strategy = "missing"
    THEN SelectSeq(T, LAMBDA t : Key(t) \notin KeysOf(b) /\ t.weight >= 0)
    ELSE SelectSeq(T, LAMBDA t : t.weight >= 0)

AsAuto(t) == [t EXCEPT !.source = "auto"]

RECURSIVE InsertAuto(_, _)
InsertAuto(b, T) ==
    IF T = <<>> THEN b
    ELSE InsertAuto(b (+) SetToBag({AsAuto(Head(T))}), Tail(T))

\* The result with 'applied' for every call on an existing image.
ApplyResult_always_applied(d, i, T, strategy) ==
    IF d.images[i] = 0 THEN "missing" ELSE "applied"

ApplyResult(d, i, T, strategy) ==
    IF d.images[i] = 0 THEN "missing"
    ELSE IF ToAdd(d.tags[i], T, strategy) = <<>> THEN "skipped"
    ELSE "applied"

apply_auto_tags(d, i, T, strategy) ==
    IF ApplyResult(d, i, T, strategy) # "applied" THEN d
    ELSE [d EXCEPT !.tags[i] = InsertAuto(@, ToAdd(@, T, strategy))]

\* store_rating: the rating rows that are not auto-sourced are replaced by
\* one dbrating row whose norm is the rating.
store_rating(d, i, rating, confidence) ==
    LET b == d.tags[i]
        kept == Restrict(b, {r \in BagToSet(b) :
                                 ~(r.kind = "rating" /\ r.source # "auto")})
        row == [kind |-> "rating", norm |-> rating, weight |-> confidence,
                source |-> "dbrating"]
    IN [d EXCEPT !.tags[i] = kept (+) SetToBag({row})]

\* ------------------------------------------------------- job tables
\* auto_tag_jobs and clip_embeddings are read and written by the same
\* statements up to the table's name (and clip's model filter).
CfgModel == "m1"

JobsOf(d, kind) == IF kind = "auto" THEN d.auto ELSE d.clip
QueueOf(d, kind) == IF kind = "auto" THEN d.autoQ ELSE d.clipQ

WithJobs(d, kind, jobs, q) ==
    IF kind = "auto" THEN [d EXCEPT !.auto = jobs, !.autoQ = q]
    ELSE [d EXCEPT !.clip = jobs, !.clipQ = q]

\* UPDATE <jobs> SET status=? WHERE image_id=?: no condition on the status the
\* row has; a missing row is not created.
SetStatus(d, kind, i, status) ==
    IF JobsOf(d, kind)[i] = NoJob THEN d
    ELSE WithJobs(d, kind, [JobsOf(d, kind) EXCEPT ![i].status = status],
                  QueueOf(d, kind))

\* The row becomes pending for the model with queued_at = now: it goes to the
\* end of the queue.
SetPending(d, kind, i, model) ==
    WithJobs(d, kind,
             [JobsOf(d, kind) EXCEPT ![i] = [status |-> "pending", model |-> model]],
             Append(Without(QueueOf(d, kind), i), i))

\* ensure_auto_tag_job / ensure_clip_entry resetting every row they find.
ensure_job_resets(d, kind, i, model, force_reset) == SetPending(d, kind, i, model)

ensure_job(d, kind, i, model, force_reset) ==
    LET row == JobsOf(d, kind)[i]
    IN IF row = NoJob THEN SetPending(d, kind, i, model)
       ELSE IF force_reset \/ row.model # model \/ row.status \in {"error", "missing"}
            THEN SetPending(d, kind, i, model)
            ELSE d

\* SELECT ... WHERE status='pending' [AND model=?] ORDER BY queued_at LIMIT ?
ReserveRows(d, kind, limit) ==
    LET p == SelectSeq(QueueOf(d, kind),
                 LAMBDA i : /\ JobsOf(d, kind)[i].status = "pending"
                            /\ (kind = "clip" => JobsOf(d, kind)[i].model = CfgModel))
    IN SubSeq(p, 1, IF Len(p) < limit THEN Len(p) ELSE limit)

RECURSIVE MarkProcessing(_, _, _)
MarkProcessing(d, kind, rows) ==
    IF rows = <<>> THEN d
    ELSE MarkProcessing(SetStatus(d, kind, Head(rows), "processing"), kind,
                        Tail(rows))

\* The stuck-job reset: every row left in processing becomes pending.
ResetStuck(d, kind) ==
    WithJobs(d, kind,
             [i \in Images |->
                 IF JobsOf(d, kind)[i].status = "processing"
                 THEN [JobsOf(d, kind)[i] EXCEPT !.status = "pending"]
                 ELSE JobsOf(d, kind)[i]],
             QueueOf(d, kind))

Range(q) == {q[n] : n \in 1..Len(q)}

\* ------------------------------------------------------------ state
VARIABLES
    db,      \* the committed content of the database file
    conn,    \* the view of the shared connection (db plus its open transaction)
    writer,  \* the connection holding SQLite's write lock, "none" when free
    last,    \* the store call made last: its arguments, result and effect
    phase,   \* main(): "boot", "reset" (stuck jobs reset), "running" (workers started)
    atBoot,  \* the job tables as the previous run left them
    cl,      \* per claimant: the position in its reserve call and what it was given
    wk,      \* the AutoTagIndexer thread
    ck,      \* the ClipIndexer thread
    sc,      \* the Scanner thread
    paused   \* the indexers whose pause event is cleared

storeVars == <<db, conn, writer>>
queueVars == <<phase, atBoot, cl>>
threadVars == <<wk, ck, sc, paused>>
vars == <<db, conn, writer, last, phase, atBoot, cl, wk, ck, sc, paused>>

NoCall ==
    [op |-> "none", image |-> 0, tags |-> <<>>, strategy |-> "none",
     result |-> "none", changed |-> FALSE, repeat |-> FALSE]

EmbeddedRecords == {t \in TagRecord : t.source = "embedded"}
AutoRecords == {t \in TagRecord : t.source = "auto"}
EmbeddedLists == TagLists(EmbeddedRecords)
\* apply_auto_tags inserts into a bag of rows, so the order of its list is
\* immaterial: one list per set of records is offered.
KeyRank(t) ==
    (IF t.kind = "prompt" THEN 0 ELSE 2) + (IF t.norm = "a" THEN 0 ELSE 1)
AutoLists ==
    {s \in TagLists(AutoRecords) :
        \A i, j \in 1..Len(s) : i < j => KeyRank(s[i]) < KeyRank(s[j])}
Strategies == {"missing", "augment"}

JobKinds == {"auto", "clip"}
Claimants == {"w1", "w2"}
IdleClaimant ==
    [pc |-> "idle", kind |-> "auto", rows |-> <<>>,
     got |-> [k \in JobKinds |-> {}]]

IdleWorker ==
    [pc |-> "idle", batch |-> <<>>, k |-> 0, tags |-> <<>>, image_ids |-> <<>>,
     status |-> "none", attempts |-> 0, lockedItem |-> 0,
     reported |-> "running"]
IdleScanner ==
    [pc |-> "idle", image |-> 0, ver |-> 0, changed |-> FALSE,
     job_status |-> "none", auto_tagged |-> FALSE, count |-> 0,
     before |-> NoJob, after |-> NoJob]

\* A call made by one thread while no transaction is open on the shared
\* connection: the `with self._connection:` block commits the view d.
Commit(d) == db' = d /\ conn' = d /\ writer' = "none"

Recorded(op, i, T, strategy, result, d) ==
    [op |-> op, image |-> i, tags |-> T, strategy |-> strategy,
     result |-> result, changed |-> d.tags[i] # conn.tags[i],
     repeat |-> last.op = op /\ last.image = i /\ last.tags = T
                /\ last.strategy = strategy]

Fits(d) == \A i \in Images : BagCardinality(d.tags[i]) <= MaxTagRows

\* ------------------------------------------- sequential store calls
Call_upsert_image_record(i, ver, T) ==
    LET d == upsert_image_record(conn, i, ver, T)
    IN /\ writer = "none"
       /\ Fits(d)
       /\ Commit(d)
       /\ last' = Recorded("upsert", i, T, "none", "changed", d)
       /\ UNCHANGED <<queueVars, threadVars>>

Call_apply_auto_tags(i, T, strategy) ==
    LET d == apply_auto_tags(conn, i, T, strategy)
    IN /\ writer = "none"
       /\ Fits(d)
       /\ Commit(d)
       /\ last' = Recorded("apply", i, T, strategy,
                           ApplyResult(conn, i, T, strategy), d)
       /\ UNCHANGED <<queueVars, threadVars>>

\* The INSERT of a tags row for an image without a row breaks the foreign
\* key, which the shared connection enforces: the call raises and its
\* transaction is rolled back.
Call_store_rating(i, rating, confidence) ==
    LET d == IF conn.images[i] = 0 THEN conn
             ELSE store_rating(conn, i, rating, confidence)
    IN /\ writer = "none"
       /\ Fits(d)
       /\ Commit(d)
       /\ last' = Recorded("rating", i, <<>>, "none",
                           IF conn.images[i] = 0 THEN "raised" ELSE "stored", d)
       /\ UNCHANGED <<queueVars, threadVars>>

StoreInit ==
    /\ db = EmptyStore
    /\ conn = EmptyStore
    /\ writer = "none"
    /\ last = NoCall
    /\ phase = "running"
    /\ atBoot = EmptyStore
    /\ cl = [c \in Claimants |-> IdleClaimant]
    /\ wk = IdleWorker
    /\ ck = IdleWorker
    /\ sc = IdleScanner
    /\ paused = {}

\* The calls are made for one image: every statement of the three methods
\* is restricted to its image_id.
StoreNext ==
    \/ \E T \in EmbeddedLists : Call_upsert_image_record(1, 1, T)
    \/ \E T \in AutoLists, s \in Strategies :
          Call_apply_auto_tags(1, T, s)
    \/ \E r \in Norms : Call_store_rating(1, r, 1)

SpecStore == StoreInit /\ [][StoreNext]_vars

\* The (kind, norm) pairs of the list T are pairwise distinct.
DistinctKeys(T) == \A m, n \in 1..Len(T) : Key(T[m]) = Key(T[n]) => m = n

C35_UpsertStoresExactlyTDistinctNorms ==
    [][(/\ last'.op = "upsert"
        /\ \A m, n \in 1..Len(last'.tags) :
               last'.tags[m].norm = last'.tags[n].norm => m = n
        /\ \A n \in 1..Len(last'.tags) :
               LET hit == {r \in BagToSet(db.tags[last'.image]) : r.norm = last'.tags[n].norm}
               IN SumCopies(db.tags[last'.image], hit) <= 1)
          => db'.tags[last'.image] = SeqToBag(last'.tags)]_vars

\* Some (kind, norm) pair is held by two or more tags rows of image i.
HasDuplicateKey(d, i) ==
    \E k \in KeysOf(d.tags[i]) :
        SumCopies(d.tags[i], {r \in BagToSet(d.tags[i]) : Key(r) = k}) > 1

\* C2: after any sequence of upsert_image_record, apply_auto_tags and
\* store_rating calls, no image has two tags rows with the same (kind, norm).
C2_NoDuplicateKindNorm == \A i \in Images : ~HasDuplicateKey(db, i)

\* C3: apply_auto_tags(image, T, 'augment') called a second time right after
\* the first changes no tags row of the image and returns 'skipped'.
C3_AugmentIdempotent ==
    (last.op = "apply" /\ last.strategy = "augment" /\ last.repeat
        /\ db.images[last.image] # 0)
        => (last.result = "skipped" /\ ~last.changed)

\* The image has a tags row whose source is not 'auto'.
HasManual(d, i) == \E r \in BagToSet(d.tags[i]) : r.source # "auto"

AutoKeys(b) == {Key(r) : r \in {x \in BagToSet(b) : x.source = "auto"}}
NonAuto(b) == Restrict(b, {r \in BagToSet(b) : r.source # "auto"})

\* C12 as claimed: apply_auto_tags with 'missing' on an image that has a
\* manual tags row leaves all of the image's tags rows unchanged.
C12_MissingSkipsManualImage ==
    [][(last'.op = "apply" /\ last'.strategy = "missing"
           /\ HasManual(db, last'.image))
        => db'.tags[last'.image] = db.tags[last'.image]]_vars

\* C12 amended: apply_auto_tags with 'missing' on an image that has a manual
\* tags row leaves every row the image had as it was and adds, as auto rows,
\* exactly the offered tags of weight >= 0 whose (kind, norm) no row of the
\* image had.
C12_MissingAddsOnlyAbsent ==
    [][(last'.op = "apply" /\ last'.strategy = "missing"
           /\ HasManual(db, last'.image))
        => LET before == db.tags[last'.image]
               after == db'.tags[last'.image]
               T == last'.tags
               absent == {n \in 1..Len(T) :
                             Key(T[n]) \notin KeysOf(before) /\ T[n].weight >= 0}
           IN /\ before \sqsubseteq after
              /\ BagCardinality(after) = BagCardinality(before) + Cardinality(absent)
              /\ BagToSet(after (-) before) = {AsAuto(T[n]) : n \in absent}]_vars

\* A 'missing' call on an image with a manual row has added an auto row.
C12_Witness ==
    /\ last.op = "apply" /\ last.strategy = "missing"
    /\ last.result = "applied" /\ last.changed
    /\ HasManual(db, last.image)
    /\ AutoKeys(db.tags[last.image]) # {}

\* C25: apply_auto_tags with 'missing' on an existing image keeps every row
\* the image had, inserts only offered tags whose (kind, norm) no row of the
\* image had, gives no pair that had a row a second one, and returns
\* 'applied' when it inserted a row and 'skipped' when it inserted none.
C25_MissingInsertsAbsentOnly ==
    [][(last'.op = "apply" /\ last'.strategy = "missing"
           /\ db.images[last'.image] # 0)
        => LET before == db.tags[last'.image]
               after == db'.tags[last'.image]
               T == last'.tags
           IN /\ before \sqsubseteq after
              /\ \A r \in BagToSet(after (-) before) :
                    /\ Key(r) \notin KeysOf(before)
                    /\ \E n \in 1..Len(T) : r = AsAuto(T[n])
              /\ \A r \in BagToSet(before) :
                    CopiesIn(r, after) = CopiesIn(r, before)
              /\ last'.result = IF after # before THEN "applied" ELSE "skipped"]_vars

\* A 'missing' call offered a tag the image had and one it had not: it
\* inserted the second and returned 'applied'.
C25_Witness ==
    /\ last.op = "apply" /\ last.strategy = "missing"
    /\ last.result = "applied" /\ last.changed
    /\ Len(last.tags) = 2
    /\ BagCardinality(db.tags[last.image]) = 2
    /\ ~HasDuplicateKey(db, last.image)
    /\ \E r \in BagToSet(db.tags[last.image]) :
          /\ r.source # "auto"
          /\ \E n \in 1..Len(last.tags) : Key(last.tags[n]) = Key(r)

\* C13: after apply_auto_tags with 'augment' and result T on an existing
\* image, the image's auto-sourced (kind, norm) pairs are those of T and its
\* rows of another source are as before the call.
C13_AugmentConverges ==
    [][(last'.op = "apply" /\ last'.strategy = "augment"
           /\ db.images[last'.image] # 0)
        => /\ AutoKeys(db'.tags[last'.image])
                 = {Key(last'.tags[n]) : n \in 1..Len(last'.tags)}
           /\ NonAuto(db'.tags[last'.image]) = NonAuto(db.tags[last'.image])]_vars

\* ------------------------------------------- startup and job claims
\* reserve_auto_tag_batch / reserve_clip_batch on a connection of their own.
\* The SELECT runs before any transaction is open on that connection.
ReserveSelect(c, kind) ==
    /\ cl[c].pc = "idle"
    /\ cl' = [cl EXCEPT ![c].pc =
                            IF ReserveRows(db, kind, BatchSize) = <<>>
                            THEN "idle" ELSE "selected",
                        ![c].kind = kind,
                        ![c].rows = ReserveRows(db, kind, BatchSize)]
    /\ UNCHANGED storeVars

\* The first UPDATE opens the transaction and takes the write lock.
ReserveUpdate(c) ==
    /\ cl[c].pc = "selected"
    /\ writer = "none"
    /\ writer' = c
    /\ cl' = [cl EXCEPT ![c].pc = "updating"]
    /\ UNCHANGED <<db, conn>>

\* The lock is held by another connection until the busy timeout runs out:
\* the call raises 'database is locked' and returns no rows.
ReserveLocked(c) ==
    /\ cl[c].pc = "selected"
    /\ writer # "none"
    /\ cl' = [cl EXCEPT ![c].pc = "idle", ![c].rows = <<>>]
    /\ UNCHANGED storeVars

\* The `with conn:` block is left: the rows selected are processing, whatever
\* status they had by now, and are returned.
ReserveCommit(c) ==
    LET d == MarkProcessing(db, cl[c].kind, cl[c].rows)
    IN /\ cl[c].pc = "updating"
       /\ Commit(d)
       /\ cl' = [cl EXCEPT ![c].pc = "idle",
                           ![c].got[cl[c].kind] = @ \cup Range(cl[c].rows)]

\* The startup with the reset of the clip jobs left out.
Main_reset_auto_jobs_only ==
    /\ phase = "boot"
    /\ Commit(ResetStuck(conn, "auto"))
    /\ phase' = "reset"
    /\ UNCHANGED <<last, atBoot, cl, threadVars>>

\* main(): db.reset_stuck_clip_jobs(...) and db.reset_stuck_auto_jobs().
Main_reset_stuck_jobs ==
    /\ phase = "boot"
    /\ Commit(ResetStuck(ResetStuck(conn, "clip"), "auto"))
    /\ phase' = "reset"
    /\ UNCHANGED <<last, atBoot, cl, threadVars>>

\* main(): clip_indexer.start() and auto_indexer.start().
Main_start_workers ==
    /\ phase = "reset"
    /\ phase' = "running"
    /\ UNCHANGED <<storeVars, last, atBoot, cl, threadVars>>

Claim_select(c, kind) ==
    /\ phase = "running"
    /\ ReserveSelect(c, kind)
    /\ UNCHANGED <<last, phase, atBoot, threadVars>>

Claim_update(c) ==
    ReserveUpdate(c) /\ UNCHANGED <<last, phase, atBoot, threadVars>>

Claim_locked(c) ==
    ReserveLocked(c) /\ UNCHANGED <<last, phase, atBoot, threadVars>>

Claim_commit(c) ==
    ReserveCommit(c) /\ UNCHANGED <<last, phase, atBoot, threadVars>>

\* The job rows a previous run can leave behind for one image.
LeftAuto == {NoJob} \cup [status : Statuses, model : {CfgModel}]
LeftClip ==
    {NoJob} \cup [status : Statuses \ {"skipped"}, model : {CfgModel}]
            \cup {[status |-> "pending", model |-> "m2"]}

QueueOrders ==
    {o \in [1..NumImages -> Images] : \A m, n \in 1..NumImages : o[m] = o[n] => m = n}

LeftStores ==
    {[EmptyStore EXCEPT !.images = [i \in Images |-> 1],
                        !.auto = a, !.clip = e,
                        !.autoQ = SelectSeq(o, LAMBDA i : a[i] # NoJob),
                        !.clipQ = SelectSeq(o, LAMBDA i : e[i] # NoJob)] :
        a \in [Images -> LeftAuto], e \in [Images -> LeftClip],
        o \in QueueOrders}

QueueInit ==
    /\ db \in LeftStores
    /\ conn = db
    /\ writer = "none"
    /\ last = NoCall
    /\ phase = "boot"
    /\ atBoot = db
    /\ cl = [c \in Claimants |-> IdleClaimant]
    /\ wk = IdleWorker
    /\ ck = IdleWorker
    /\ sc = IdleScanner
    /\ paused = {}

QueueNext ==
    \/ Main_reset_stuck_jobs
    \/ Main_start_workers
    \/ \E c \in Claimants, kind \in JobKinds : Claim_select(c, kind)
    \/ \E c \in Claimants : Claim_update(c)
    \/ \E c \in Claimants : Claim_locked(c)
    \/ \E c \in Claimants : Claim_commit(c)

SpecQueue == QueueInit /\ [][QueueNext]_vars

\* C1: a job is never returned to two callers of reserve_auto_tag_batch or
\* reserve_clip_batch: the batches returned to different callers are disjoint.
C1_ClaimExclusive ==
    \A kind \in JobKinds : cl["w1"].got[kind] \cap cl["w2"].got[kind] = {}

\* The position of image i in a queue (0 when it has none).
QueuePos(q, i) ==
    IF \E n \in 1..Len(q) : q[n] = i
    THEN CHOOSE n \in 1..Len(q) : q[n] = i ELSE 0

\* The rows are the oldest jobs of the kind that are pending in d, oldest
\* first, and at most limit of them.
OldestPending(d, kind, rows, limit) ==
    LET jobs == JobsOf(d, kind)
        q == QueueOf(d, kind)
    IN /\ Len(rows) <= limit
       /\ \A n \in 1..Len(rows) : jobs[rows[n]] # NoJob /\ jobs[rows[n]].status = "pending"
       /\ \A m, n \in 1..Len(rows) : m < n => QueuePos(q, rows[m]) < QueuePos(q, rows[n])
       /\ \A n \in 1..Len(rows) : \A k \in 1..QueuePos(q, rows[n]) :
              (/\ jobs[q[k]].status = "pending"
               /\ (kind = "clip" => jobs[q[k]].model = CfgModel))
                  => q[k] \in Range(rows)

\* C28: a reserve call returns at most `limit` jobs, all pending, oldest
\* first with no older pending job left out, and its commit takes exactly the
\* returned jobs from pending to processing and leaves every other job row
\* as it was.
C28_ReserveCall ==
    [][\A c \in Claimants :
          (cl[c].pc = "updating" /\ cl'[c].pc = "idle")
              => LET kind == cl[c].kind
                     rows == cl[c].rows
                     other == IF kind = "auto" THEN "clip" ELSE "auto"
                 IN /\ OldestPending(db, kind, rows, BatchSize)
                    /\ \A i \in Range(rows) : JobsOf(db', kind)[i].status = "processing"
                    /\ \A i \in Images \ Range(rows) : JobsOf(db', kind)[i] = JobsOf(db, kind)[i]
                    /\ JobsOf(db', other) = JobsOf(db, other)
                    /\ cl'[c].got[kind] = cl[c].got[kind] \cup Range(rows)]_vars

\* C28, the selection alone: the rows a reserve call selects are the oldest
\* pending jobs of the kind at the moment of the SELECT, at most `limit`.
C28_ReserveSelection ==
    [][\A c \in Claimants :
          (cl[c].pc = "idle" /\ cl'[c].pc = "selected")
              => /\ cl'[c].rows # <<>>
                 /\ OldestPending(db, cl'[c].kind, cl'[c].rows, BatchSize)]_vars

\* The row of a job after the stuck-job reset, given the row it was at boot.
AfterReset(row) ==
    IF row.status = "processing" THEN [row EXCEPT !.status = "pending"] ELSE row

\* C5: once the startup reset has run and before any worker is started, no
\* job of any kind is processing; every job that was processing at boot is
\* pending, once (no row is added or lost, the queue holds each row once),
\* and every job in another status is as it was.
C5_StuckJobsReset ==
    phase = "reset" =>
        \A kind \in JobKinds :
            /\ \A i \in Images :
                  /\ JobsOf(db, kind)[i].status # "processing"
                  /\ JobsOf(db, kind)[i] = AfterReset(JobsOf(atBoot, kind)[i])
            /\ QueueOf(db, kind) = QueueOf(atBoot, kind)
            /\ Len(QueueOf(db, kind))
                  = Cardinality({i \in Images : JobsOf(db, kind)[i] # NoJob})

\* A job of each kind was processing at boot and the reset has just run.
C5_Witness ==
    /\ phase = "reset"
    /\ \E i \in Images : atBoot.auto[i].status = "processing"
                            /\ db.auto[i].status = "pending"
    /\ \E i \in Images : atBoot.clip[i].status = "processing"
                            /\ db.clip[i].status = "pending"
                            /\ db.auto[i].status = "ready"

\* ----------------------------------------------- the indexer threads
AutoTagMode == "augment"

\* What generate_wd14_tags returns for a readable image: nothing above the
\* thresholds, a general tag, or a general tag and the tag of the best rating.
GeneralTag == [kind |-> "prompt", norm |-> "b", weight |-> 1, source |-> "auto"]
RatingTag == [kind |-> "rating", norm |-> "a", weight |-> 1, source |-> "auto"]
GeneratedLists == {<<>>, <<GeneralTag>>, <<GeneralTag, RatingTag>>}

\* A statement on the shared connection needs the write lock unless another
\* connection holds it.
CanWriteShared == writer \in {"none", "shared"}

\* An INSERT/UPDATE/DELETE executed on the shared connection outside a `with`
\* block: it opens (or joins) the connection's transaction and nothing
\* commits it.
SharedWrite(d) == conn' = d /\ writer' = "shared" /\ db' = db

\* Leaving a `with self._connection:` block whose statements produced view d:
\* commit() ends whatever transaction is open on the connection, whichever
\* thread's statements it holds.
SharedBlock(d) ==
    IF d = conn /\ writer # "shared" THEN UNCHANGED storeVars
    ELSE CanWriteShared /\ Commit(d)

\* A `with self._connection:` block left by an exception: rollback() discards
\* whatever the connection's transaction holds.
SharedRollback ==
    IF writer = "shared" THEN Commit(db) ELSE UNCHANGED storeVars

\* stop() has been called on the worker: at shutdown main stops and joins the
\* ClipIndexer, then the AutoTagIndexer.
StopRequested(w) ==
    \/ w = "clip" /\ phase \in {"stop_clip", "stop_auto"}
    \/ w = "auto" /\ phase = "stop_auto"

\* AutoTagIndexer.run: the stop event, then the pause event, are tested at
\* the top of the loop.
Auto_run ==
    /\ wk.pc = "idle"
    /\ wk' = IF StopRequested("auto") THEN [wk EXCEPT !.pc = "stopped"]
             ELSE IF "auto" \in paused
             THEN [wk EXCEPT !.reported = "paused"]
             ELSE [wk EXCEPT !.pc = "unpaused"]
    /\ UNCHANGED <<storeVars, last, queueVars, ck, sc, paused>>

\* run, after the test found the event set: self.progress.paused = False.
Auto_run_unpaused ==
    /\ wk.pc = "unpaused"
    /\ wk' = [wk EXCEPT !.reported = "running", !.pc = "batch"]
    /\ UNCHANGED <<storeVars, last, queueVars, ck, sc, paused>>

\* _process_batch: the pause event is tested again before the claim.
Auto_process_batch ==
    /\ wk.pc = "batch"
    /\ wk' = [wk EXCEPT !.pc = IF "auto" \in paused THEN "idle" ELSE "reserve"]
    /\ UNCHANGED <<storeVars, last, queueVars, ck, sc, paused>>

Auto_reserve_select ==
    /\ wk.pc = "reserve"
    /\ ReserveSelect("w1", "auto")
    /\ wk' = [wk EXCEPT !.pc = IF ReserveRows(db, "auto", BatchSize) = <<>>
                                THEN "refresh" ELSE "reserving",
                        !.batch = <<>>, !.k = 0]
    /\ UNCHANGED <<last, phase, atBoot, ck, sc, paused>>

Auto_reserve_update ==
    /\ wk.pc = "reserving"
    /\ ReserveUpdate("w1")
    /\ UNCHANGED <<last, phase, atBoot, threadVars>>

\* The claim raises 'database is locked': nothing in _process_batch or run
\* catches it and the thread ends.
Auto_reserve_locked ==
    /\ wk.pc = "reserving"
    /\ ReserveLocked("w1")
    /\ wk' = [wk EXCEPT !.pc = "dead"]
    /\ UNCHANGED <<last, phase, atBoot, ck, sc, paused>>

Auto_reserve_commit ==
    /\ wk.pc = "reserving"
    /\ ReserveCommit("w1")
    /\ wk' = [wk EXCEPT !.pc = "generate", !.batch = cl["w1"].rows, !.k = 1,
                        !.attempts = 0, !.lockedItem = 0]
    /\ UNCHANGED <<last, phase, atBoot, ck, sc, paused>>

\* generate_wd14_tags for the current row: tags, AutoTaggingUnavailable or an
\* unreadable image; the two failures lead to mark_auto_tag_error.
Auto_generate(outcome, T) ==
    /\ wk.pc = "generate"
    /\ wk' = IF outcome = "tags"
             THEN [wk EXCEPT !.pc = "apply", !.tags = T, !.attempts = 0,
                             !.lockedItem = 0]
             ELSE [wk EXCEPT !.pc = "mark", !.tags = <<>>, !.status = "error",
                             !.attempts = 0, !.lockedItem = 0]
    /\ UNCHANGED <<storeVars, last, queueVars, ck, sc, paused>>

\* db.apply_auto_tags returns; its result selects the mark that follows.
Auto_apply ==
    LET i == wk.batch[wk.k]
        result == ApplyResult(conn, i, wk.tags, AutoTagMode)
    IN /\ wk.pc = "apply"
       /\ SharedBlock(apply_auto_tags(conn, i, wk.tags, AutoTagMode))
       /\ wk' = [wk EXCEPT !.pc = "mark", !.attempts = @ + 1,
                           !.status = IF result = "skipped" THEN "skipped"
                                      ELSE "ready"]
       /\ UNCHANGED <<last, queueVars, ck, sc, paused>>

\* The INSERT of apply_auto_tags finds the write lock held by another
\* connection and raises 'database is locked': the job is marked error.
Auto_apply_locked ==
    LET i == wk.batch[wk.k]
    IN /\ wk.pc = "apply"
       /\ ~CanWriteShared
       /\ ApplyResult(conn, i, wk.tags, AutoTagMode) = "applied"
       /\ wk' = [wk EXCEPT !.pc = "mark", !.attempts = @ + 1,
                           !.lockedItem = i, !.status = "error"]
       /\ UNCHANGED <<storeVars, last, queueVars, ck, sc, paused>>

\* The INSERT raises another sqlite3.OperationalError (disk I/O error, disk
\* full): the handler re-raises it and the thread ends.
Auto_apply_raises ==
    LET i == wk.batch[wk.k]
    IN /\ wk.pc = "apply"
       /\ CanWriteShared
       /\ ApplyResult(conn, i, wk.tags, AutoTagMode) = "applied"
       /\ SharedRollback
       /\ wk' = [wk EXCEPT !.pc = "dead", !.attempts = @ + 1]
       /\ UNCHANGED <<last, queueVars, ck, sc, paused>>

MarkedNext(w) ==
    IF w.k < Len(w.batch) THEN [w EXCEPT !.pc = "generate", !.k = @ + 1]
    ELSE [w EXCEPT !.pc = "refresh"]

\* mark_auto_tag_ready / _skipped / _error for the current row.
Auto_mark ==
    /\ wk.pc = "mark"
    /\ CanWriteShared
    /\ SharedWrite(SetStatus(conn, "auto", wk.batch[wk.k], wk.status))
    /\ wk' = MarkedNext(wk)
    /\ UNCHANGED <<last, queueVars, ck, sc, paused>>

\* The UPDATE of the mark finds the write lock held by another connection:
\* the exception leaves _process_batch and the thread ends.
Auto_mark_locked ==
    /\ wk.pc = "mark"
    /\ ~CanWriteShared
    /\ wk' = [wk EXCEPT !.pc = "dead"]
    /\ UNCHANGED <<storeVars, last, queueVars, ck, sc, paused>>

\* progress.refresh_from_db: auto_tag_progress_counts reads inside a
\* `with self._connection:` block.
Auto_refresh ==
    /\ wk.pc = "refresh"
    /\ SharedBlock(conn)
    /\ wk' = [wk EXCEPT !.pc = "idle"]
    /\ UNCHANGED <<last, queueVars, ck, sc, paused>>

\* AutoTagIndexer.pause / ClipIndexer.pause and resume, called by the HTTP
\* handlers.
Pause(w) ==
    /\ w \notin paused
    /\ paused' = paused \cup {w}
    /\ wk' = IF w = "auto" THEN [wk EXCEPT !.reported = "paused"] ELSE wk
    /\ UNCHANGED <<storeVars, last, queueVars, ck, sc>>

Resume(w) ==
    /\ w \in paused
    /\ paused' = paused \ {w}
    /\ wk' = IF w = "auto" THEN [wk EXCEPT !.reported = "running"] ELSE wk
    /\ UNCHANGED <<storeVars, last, queueVars, ck, sc>>

\* ClipIndexer.run: the pause event is tested at the top of the loop only.
Clip_run ==
    /\ ck.pc = "idle"
    /\ ck' = IF StopRequested("clip") THEN [ck EXCEPT !.pc = "stopped"]
             ELSE IF "clip" \in paused
             THEN [ck EXCEPT !.reported = "paused"]
             ELSE [ck EXCEPT !.pc = "unpaused"]
    /\ UNCHANGED <<storeVars, last, queueVars, wk, sc, paused>>

\* run, after the test found the event set: self.progress.paused = False.
Clip_run_unpaused ==
    /\ ck.pc = "unpaused"
    /\ ck' = [ck EXCEPT !.reported = "running", !.pc = "reserve"]
    /\ UNCHANGED <<storeVars, last, queueVars, wk, sc, paused>>

\* _process_batch: an empty claim ends it (clip_progress_counts only reads).
Clip_reserve_select ==
    /\ ck.pc = "reserve"
    /\ ReserveSelect("w2", "clip")
    /\ ck' = [ck EXCEPT !.pc = IF ReserveRows(db, "clip", BatchSize) = <<>>
                                THEN "idle" ELSE "reserving",
                        !.batch = <<>>, !.k = 0, !.image_ids = <<>>]
    /\ UNCHANGED <<last, phase, atBoot, wk, sc, paused>>

Clip_reserve_update ==
    /\ ck.pc = "reserving"
    /\ ReserveUpdate("w2")
    /\ UNCHANGED <<last, phase, atBoot, threadVars>>

Clip_reserve_locked ==
    /\ ck.pc = "reserving"
    /\ ReserveLocked("w2")
    /\ ck' = [ck EXCEPT !.pc = "dead"]
    /\ UNCHANGED <<last, phase, atBoot, wk, sc, paused>>

Clip_reserve_commit ==
    /\ ck.pc = "reserving"
    /\ ReserveCommit("w2")
    /\ ck' = [ck EXCEPT !.pc = "open", !.batch = cl["w2"].rows, !.k = 1,
                        !.attempts = 0, !.lockedItem = 0]
    /\ UNCHANGED <<last, phase, atBoot, wk, sc, paused>>

OpenedNext(w) ==
    IF w.k < Len(w.batch) THEN [w EXCEPT !.k = @ + 1]
    ELSE IF w.image_ids = <<>> THEN [w EXCEPT !.pc = "idle"]
    ELSE [w EXCEPT !.pc = "store", !.k = 1]

\* The first loop of _process_batch: the row's file opens.
Clip_open ==
    /\ ck.pc = "open"
    /\ ck' = OpenedNext([ck EXCEPT !.image_ids = Append(@, ck.batch[ck.k])])
    /\ UNCHANGED <<storeVars, last, queueVars, wk, sc, paused>>

\* The row's file is missing or unreadable: mark_clip_error.
Clip_open_fails ==
    /\ ck.pc = "open"
    /\ CanWriteShared
    /\ SharedWrite(SetStatus(conn, "clip", ck.batch[ck.k], "error"))
    /\ ck' = OpenedNext(ck)
    /\ UNCHANGED <<last, queueVars, wk, sc, paused>>

StoredNext(w) ==
    IF w.k < Len(w.image_ids) THEN [w EXCEPT !.pc = "store", !.k = @ + 1]
    ELSE [w EXCEPT !.pc = "idle"]

\* UPDATE clip_embeddings SET status='ready', model=?, vector=? WHERE image_id=?
store_clip_vector(d, i) ==
    IF d.clip[i] = NoJob THEN d
    ELSE [d EXCEPT !.clip[i] = [status |-> "ready", model |-> CfgModel]]

\* store_clip_vector on a connection of its own: the UPDATE takes the lock...
Clip_store_begin ==
    /\ ck.pc = "store"
    /\ writer = "none"
    /\ writer' = "w2"
    /\ ck' = [ck EXCEPT !.pc = "storing", !.attempts = 1, !.lockedItem = 0]
    /\ UNCHANGED <<db, conn, last, queueVars, wk, sc, paused>>

\* ... and the `with conn:` block commits it.
Clip_store_commit ==
    /\ ck.pc = "storing"
    /\ Commit(store_clip_vector(db, ck.image_ids[ck.k]))
    /\ ck' = StoredNext(ck)
    /\ UNCHANGED <<last, queueVars, wk, sc, paused>>

\* The UPDATE finds the write lock held and raises 'database is locked': the
\* loop catches it and calls mark_clip_error(image_id, "db failure").
Clip_store_locked ==
    /\ ck.pc = "store"
    /\ writer # "none"
    /\ ck' = [ck EXCEPT !.pc = "markerr", !.attempts = 1,
                        !.lockedItem = ck.image_ids[ck.k]]
    /\ UNCHANGED <<storeVars, last, queueVars, wk, sc, paused>>

Clip_mark_error ==
    /\ ck.pc = "markerr"
    /\ CanWriteShared
    /\ SharedWrite(SetStatus(conn, "clip", ck.image_ids[ck.k], "error"))
    /\ ck' = StoredNext(ck)
    /\ UNCHANGED <<last, queueVars, wk, sc, paused>>

\* mark_clip_error raises inside the handler: the thread ends.
Clip_mark_locked ==
    /\ ck.pc = "markerr"
    /\ ~CanWriteShared
    /\ ck' = [ck EXCEPT !.pc = "dead"]
    /\ UNCHANGED <<storeVars, last, queueVars, wk, sc, paused>>

\* ------------------------------------------------ the scanner thread
\* The tags collect_tags reads from the file of an image at a content
\* version (mtime and size).
FileTags(ver) ==
    IF ver = 1 THEN <<>>
    ELSE <<[kind |-> "prompt", norm |-> "a", weight |-> 1, source |-> "embedded"]>>

has_auto_tags(d, i) == \E r \in BagToSet(d.tags[i]) : r.source = "auto"
has_rating_tag(d, i) == \E r \in BagToSet(d.tags[i]) : r.kind = "rating"

\* ingest_path with auto_tag_background: whether a job is needed.
needs_job(job_status, existing_auto_tags, missing_auto_rating, changed, manual_tags_present, auto_mode) ==
    IF auto_mode = "augment"
    THEN \/ changed
         \/ missing_auto_rating
         \/ (job_status \in {"none", "pending", "processing", "error"}
                /\ ~existing_auto_tags)
    ELSE IF ~manual_tags_present
         THEN \/ changed
              \/ (job_status \in {"none", "pending", "processing", "error"}
                     /\ ~existing_auto_tags)
         ELSE missing_auto_rating

force_reset(job_status, existing_auto_tags, missing_auto_rating, changed) ==
    \/ changed
    \/ job_status = "error"
    \/ (job_status \in {"pending", "processing"} /\ ~existing_auto_tags)
    \/ missing_auto_rating

\* The reconciliation without its first test: a job found pending or
\* processing is judged by needs_job like any other.
ReconcileOp_no_stuck_test(job_status, existing_auto_tags, missing_auto_rating, changed, manual_tags_present, auto_mode) ==
    IF job_status = "error" /\ existing_auto_tags
    THEN "ready"
    ELSE IF needs_job(job_status, existing_auto_tags, missing_auto_rating,
                      changed, manual_tags_present, auto_mode)
    THEN "ensure"
    ELSE IF /\ existing_auto_tags
            /\ job_status \notin {"none", "ready", "skipped"}
            /\ ~missing_auto_rating
    THEN "ready"
    ELSE "none"

\* What ingest_path does to the image's auto-tag job: "ready" for
\* mark_auto_tag_ready, "ensure" for ensure_auto_tag_job, "none".
ReconcileOp(job_status, existing_auto_tags, missing_auto_rating, changed, manual_tags_present, auto_mode) ==
    IF job_status \in {"pending", "processing", "error"} /\ existing_auto_tags
    THEN "ready"
    ELSE IF needs_job(job_status, existing_auto_tags, missing_auto_rating,
                      changed, manual_tags_present, auto_mode)
    THEN "ensure"
    ELSE IF /\ existing_auto_tags
            /\ job_status \notin {"none", "ready", "skipped"}
            /\ ~missing_auto_rating
    THEN "ready"
    ELSE "none"

\* Scanner.incremental_ingest: the context is loaded (load_auto_tag_jobs,
\* load_auto_tagged_ids), then ingest_path looks the image up.
Scan_begin(i, ver) ==
    /\ sc.pc = "idle"
    /\ sc.count < MaxIngests
    /\ sc' = [sc EXCEPT !.pc = IF lookup_image(conn, i) = ver THEN "reconcile"
                                ELSE "upsert",
                        !.image = i, !.ver = ver, !.changed = FALSE,
                        !.job_status = conn.auto[i].status,
                        !.auto_tagged = has_auto_tags(conn, i),
                        !.count = @ + 1,
                        !.before = NoJob, !.after = NoJob]
    /\ UNCHANGED <<storeVars, last, queueVars, wk, ck, paused>>

\* upsert_image_record: the INSERT or UPDATE of the images row.
Scan_upsert_image ==
    /\ sc.pc = "upsert"
    /\ CanWriteShared
    /\ SharedWrite(UpsertImageRow(conn, sc.image, sc.ver))
    /\ sc' = [sc EXCEPT !.pc = "tags"]
    /\ UNCHANGED <<last, queueVars, wk, ck, paused>>

\* upsert_image_record: the tags rows are replaced and the block is left.
Scan_upsert_tags ==
    /\ sc.pc = "tags"
    /\ CanWriteShared
    /\ Commit(UpsertTagRows(conn, sc.image, FileTags(sc.ver)))
    /\ sc' = [sc EXCEPT !.pc = "reconcile", !.changed = TRUE]
    /\ UNCHANGED <<last, queueVars, wk, ck, paused>>

\* A statement of ingest_path finds the write lock held by another
\* connection: the exception ends the call (incremental_ingest logs it).
Scan_locked ==
    /\ sc.pc \in {"upsert", "tags"}
    /\ ~CanWriteShared
    /\ sc' = [sc EXCEPT !.pc = "idle"]
    /\ UNCHANGED <<storeVars, last, queueVars, wk, ck, paused>>

\* ingest_path, `if auto_enabled:` with auto_tag_background.
Scan_reconcile ==
    LET i == sc.image
        missing_auto_rating == ~has_rating_tag(conn, i)
        manual_tags_present == sc.changed /\ FileTags(sc.ver) # <<>>
        op == ReconcileOp(sc.job_status, sc.auto_tagged, missing_auto_rating,
                          sc.changed, manual_tags_present, AutoTagMode)
        d == IF op = "ready" THEN SetStatus(conn, "auto", i, "ready")
             ELSE IF op = "ensure"
             THEN ensure_job(conn, "auto", i, CfgModel,
                             force_reset(sc.job_status, sc.auto_tagged,
                                         missing_auto_rating, sc.changed))
             ELSE conn
    IN /\ sc.pc = "reconcile"
       /\ IF op = "ready" THEN CanWriteShared /\ SharedWrite(d)
          ELSE IF op = "ensure" THEN SharedBlock(d)
          ELSE UNCHANGED storeVars
       /\ sc' = [sc EXCEPT !.pc = "clip", !.before = conn.auto[i],
                           !.after = d.auto[i]]
       /\ UNCHANGED <<last, queueVars, wk, ck, paused>>

\* ingest_path, `if config.clip_enabled:` ensure_clip_entry.
Scan_clip_entry ==
    /\ sc.pc = "clip"
    /\ SharedBlock(ensure_job(conn, "clip", sc.image, CfgModel, sc.changed))
    /\ sc' = [sc EXCEPT !.pc = "idle"]
    /\ UNCHANGED <<last, queueVars, wk, ck, paused>>

ScanNext ==
    \/ \E i \in Images, ver \in Versions : Scan_begin(i, ver)
    \/ Scan_upsert_image
    \/ Scan_upsert_tags
    \/ Scan_locked
    \/ Scan_reconcile
    \/ Scan_clip_entry

\* The state after a first scan: every image has its row and a pending job
\* of each kind.
ScannedStore ==
    [EmptyStore EXCEPT
        !.images = [i \in Images |-> 1],
        !.auto = [i \in Images |-> [status |-> "pending", model |-> CfgModel]],
        !.clip = [i \in Images |-> [status |-> "pending", model |-> CfgModel]],
        !.autoQ = [n \in 1..NumImages |-> n],
        !.clipQ = [n \in 1..NumImages |-> n]]

Init ==
    /\ db = ScannedStore
    /\ conn = db
    /\ writer = "none"
    /\ last = NoCall
    /\ phase = "running"
    /\ atBoot = EmptyStore
    /\ cl = [c \in Claimants |-> IdleClaimant]
    /\ wk = IdleWorker
    /\ ck = IdleWorker
    /\ sc = IdleScanner
    /\ paused = {}

AutoNext ==
    \/ Auto_run
    \/ Auto_run_unpaused
    \/ Auto_process_batch
    \/ Auto_reserve_select
    \/ Auto_reserve_update
    \/ Auto_reserve_locked
    \/ Auto_reserve_commit
    \/ \E o \in {"tags", "unavailable", "unreadable"} :
          \E T \in (IF o = "tags" THEN GeneratedLists ELSE {<<>>}) :
              Auto_generate(o, T)
    \/ Auto_apply
    \/ Auto_apply_locked
    \/ Auto_apply_raises
    \/ Auto_mark
    \/ Auto_mark_locked
    \/ Auto_refresh

ClipNext ==
    \/ Clip_run
    \/ Clip_run_unpaused
    \/ Clip_reserve_select
    \/ Clip_reserve_update
    \/ Clip_reserve_locked
    \/ Clip_reserve_commit
    \/ Clip_open
    \/ Clip_open_fails
    \/ Clip_store_begin
    \/ Clip_store_commit
    \/ Clip_store_locked
    \/ Clip_mark_error
    \/ Clip_mark_locked

Next ==
    \/ AutoNext
    \/ ClipNext
    \/ \E w \in JobKinds : Pause(w)
    \/ \E w \in JobKinds : Resume(w)

Spec == Init /\ [][Next]_vars

\* The scanner's thread and the AutoTagIndexer on the shared connection.
IngestNext ==
    \/ ScanNext
    \/ Auto_run
    \/ Auto_run_unpaused
    \/ Auto_process_batch
    \/ Auto_reserve_select
    \/ Auto_reserve_update
    \/ Auto_reserve_locked
    \/ Auto_reserve_commit
    \/ \E o \in {"tags", "unavailable", "unreadable"} :
          \E T \in (IF o = "tags" THEN GeneratedLists ELSE {<<>>}) :
              Auto_generate(o, T)
    \/ Auto_apply
    \/ Auto_apply_raises
    \/ Auto_mark
    \/ Auto_refresh

SpecIngest == Init /\ [][IngestNext]_vars

\* --------------------------------------------- sequential job calls
JobCall(op, kind, i, model, force) ==
    [op |-> op, kind |-> kind, image |-> i, model |-> model, force |-> force]

\* ensure_auto_tag_job(image_id, model, force_reset) and ensure_clip_entry.
Call_ensure_job(kind, i, model, force) ==
    /\ writer = "none"
    /\ Commit(ensure_job(conn, kind, i, model, force))
    /\ last' = JobCall("ensure", kind, i, model, force)
    /\ UNCHANGED <<queueVars, threadVars>>

\* reserve_auto_tag_batch / reserve_clip_batch called by one thread alone.
Call_reserve_batch(kind) ==
    /\ writer = "none"
    /\ ReserveRows(conn, kind, BatchSize) # <<>>
    /\ Commit(MarkProcessing(conn, kind, ReserveRows(conn, kind, BatchSize)))
    /\ last' = JobCall("reserve", kind, 0, "none", FALSE)
    /\ UNCHANGED <<queueVars, threadVars>>

\* mark_auto_tag_ready / _skipped / _error, mark_clip_error and
\* store_clip_vector, followed by a commit of the shared connection.
Call_mark(kind, i, status) ==
    /\ writer = "none"
    /\ JobsOf(conn, kind)[i] # NoJob
    /\ Commit(IF kind = "clip" /\ status = "ready" THEN store_clip_vector(conn, i)
              ELSE SetStatus(conn, kind, i, status))
    /\ last' = JobCall("mark", kind, i, "none", FALSE)
    /\ UNCHANGED <<queueVars, threadVars>>

JobsInit ==
    /\ db = [EmptyStore EXCEPT !.images = [i \in Images |-> 1]]
    /\ conn = db
    /\ writer = "none"
    /\ last = JobCall("none", "auto", 0, "none", FALSE)
    /\ phase = "running"
    /\ atBoot = EmptyStore
    /\ cl = [c \in Claimants |-> IdleClaimant]
    /\ wk = IdleWorker
    /\ ck = IdleWorker
    /\ sc = IdleScanner
    /\ paused = {}

JobsNext ==
    \/ \E kind \in JobKinds, model \in Models, force \in BOOLEAN, i \in Images :
          Call_ensure_job(kind, i, model, force)
    \/ \E kind \in JobKinds : Call_reserve_batch(kind)
    \/ \E status \in {"ready", "skipped", "error"} : \E i \in Images : Call_mark("auto", i, status)
    \/ \E status \in {"ready", "error"} : \E i \in Images : Call_mark("clip", i, status)

SpecJobs == JobsInit /\ [][JobsNext]_vars

\* C15: an ensure_auto_tag_job / ensure_clip_entry call for an image without
\* a job creates one pending job with the model given; a call without force
\* for a job of the same model that is pending, processing, ready or skipped
\* changes nothing; and the table holds at most one row per image.
C15_EnsureIdempotent ==
    [][last'.op = "ensure" =>
          LET kind == last'.kind
              i == last'.image
              row == JobsOf(db, kind)[i]
          IN /\ row = NoJob =>
                   JobsOf(db', kind)[i]
                       = [status |-> "pending", model |-> last'.model]
             /\ (/\ row # NoJob /\ ~last'.force /\ row.model = last'.model
                 /\ row.status \in {"pending", "processing", "ready", "skipped"})
                   => db' = db
             /\ \A k \in JobKinds :
                   /\ Range(QueueOf(db', k))
                          = {j \in Images : JobsOf(db', k)[j] # NoJob}
                   /\ Len(QueueOf(db', k)) = Cardinality(Range(QueueOf(db', k)))]_vars

\* An unforced ensure call has found a ready job of its model and left it.
C15_Witness ==
    /\ last.op = "ensure" /\ ~last.force
    /\ JobsOf(db, last.kind)[last.image]
           = [status |-> "ready", model |-> last.model]

\* The status changes of a job that the job state machine admits: pending to
\* processing, processing to a terminal status, and any reset to pending.
AllowedTransition(from, to) ==
    \/ from = to
    \/ to = "pending"
    \/ from = "pending" /\ to = "processing"
    \/ from = "processing" /\ to \in {"ready", "error", "skipped"}

\* C4: every change of a job's status in the store is pending to processing,
\* processing to ready, error or skipped, or a reset to pending.
C4_StatusTransitions ==
    [][\A kind \in JobKinds : \A i \in Images :
          AllowedTransition(JobsOf(db, kind)[i].status,
                            JobsOf(db, kind)[i].status')]_vars

\* C6: when AutoTagIndexer._process_batch is over, whatever failed on one
\* item, no job of the batch it claimed is left in processing.
C6_BatchLeavesNoneProcessing ==
    wk.pc \in {"idle", "dead"} =>
        \A n \in 1..Len(wk.batch) : db.auto[wk.batch[n]].status # "processing"

\* C31: when a ClipIndexer batch in which some images could not be opened and
\* the others could is over, exactly the jobs of the images that could not be
\* opened are error and every other job of the batch is ready (its vector
\* stored).
C31_MixedBatch ==
    (/\ ck.pc = "idle"
     /\ ck.image_ids # <<>>
     /\ Len(ck.image_ids) < Len(ck.batch))
        => \A n \in 1..Len(ck.batch) :
              conn.clip[ck.batch[n]].status =
                  IF ck.batch[n] \in Range(ck.image_ids) THEN "ready" ELSE "error"

\* C7: a job whose result write (apply_auto_tags, store_clip_vector) hit
\* 'database is locked' is marked error only after the write was attempted
\* more than LockedAttempts times.
C7_ErrorOnlyAfterRetries ==
    /\ (wk.lockedItem # 0 /\ conn.auto[wk.lockedItem].status = "error")
           => wk.attempts > LockedAttempts
    /\ (ck.lockedItem # 0 /\ conn.clip[ck.lockedItem].status = "error")
           => ck.attempts > LockedAttempts

\* C8: between the return of pause() and the call of resume(), the paused
\* indexer begins no claim of a further batch.
C8_NoClaimWhilePaused ==
    [][/\ "auto" \in paused => ~(cl["w1"].pc = "idle" /\ cl["w1"].pc' = "selected")
       /\ "clip" \in paused => ~(cl["w2"].pc = "idle" /\ cl["w2"].pc' = "selected")]_vars

\* The scanner's last ingest found the content of image i changed and its
\* reconciliation reset the job from processing to pending.
ResetWhileHeld(i) ==
    /\ sc.pc \in {"clip", "idle"}
    /\ sc.image = i
    /\ sc.changed
    /\ sc.before # NoJob /\ sc.before.status = "processing"
    /\ sc.after # NoJob /\ sc.after.status = "pending"

CompletedAfterSnapshot(i) ==
    /\ sc.pc = "reconcile"
    /\ sc.image = i
    /\ ~sc.changed
    /\ sc.job_status \in {"pending", "processing"}
    /\ ~sc.auto_tagged
    /\ conn.auto[i].status = "ready"
    /\ has_auto_tags(conn, i)

\* C30: a job the worker completed (ready, auto tags written) after the scan
\* took its snapshot of jobs and auto-tagged ids is not reset to pending when
\* the scan reaches its image with the content unchanged.
C30_CompletedJobNotReset ==
    [][(CompletedAfterSnapshot(sc.image) /\ sc'.pc = "clip")
          => conn'.auto[sc.image].status = "ready"]_vars

\* C30, with the rating tag written as well: the reset does not come from
\* the missing rating.
C30_CompletedRatedJobNotReset ==
    [][(/\ CompletedAfterSnapshot(sc.image)
        /\ has_rating_tag(conn, sc.image)
        /\ sc'.pc = "clip")
          => conn'.auto[sc.image].status = "ready"]_vars

PendingJob == [status |-> "pending", model |-> CfgModel]

C32_ChangedResetsClipJob ==
    (sc.pc = "idle" /\ sc.changed) => conn.clip[sc.image] = PendingJob

C9_UnchangedKeepsTerminalJob ==
    (sc.pc = "clip" /\ ~sc.changed /\ sc.before.status \in {"ready", "skipped"}
        /\ sc.job_status = sc.before.status)
        => sc.after = sc.before

EmbeddedKeys(b) == {Key(r) : r \in {x \in BagToSet(b) : x.source = "embedded"}}
FileKeys(ver) == {Key(FileTags(ver)[n]) : n \in 1..Len(FileTags(ver))}

IndexedStore ==
    [images |-> [i \in Images |-> 0],
     tags   |-> [i \in Images |-> EmptyBag],
     index  |-> [i \in Images |-> EmptyBag],
     auto   |-> [i \in Images |-> NoJob],
     clip   |-> [i \in Images |-> NoJob],
     autoQ  |-> <<>>,
     clipQ  |-> <<>>]

\* The tag_index entries (norm, kind; the image_id is the bag's owner) that
\* trigger tags_ai writes for the tags rows of bag b.
IndexRows(b) ==
    LET E == {[norm |-> r.norm, kind |-> r.kind] : r \in BagToSet(b)}
    IN [e \in E |->
           SumCopies(b, {r \in BagToSet(b) : r.norm = e.norm /\ r.kind = e.kind})]

\* Triggers tags_ai, tags_ad and tags_au fired for the tags rows that a
\* statement sequence taking the store from d to d2 inserted, deleted and
\* updated: the entry of every old row is deleted, that of every new row
\* inserted.
FireTriggers(d, d2) ==
    [d2 EXCEPT !.index =
        [i \in Images |->
            (d.index[i] (-) IndexRows(d.tags[i] (-) d2.tags[i]))
                (+) IndexRows(d2.tags[i] (-) d.tags[i])]]

\* DELETE FROM images WHERE <path in S> on the shared connection, which
\* enforces foreign keys: the tags, auto_tag_jobs and clip_embeddings rows of
\* the images cascade, and tags_ad fires for each tags row.
DeleteImageRows(d, S) ==
    FireTriggers(d,
        [d EXCEPT !.images = [i \in Images |-> IF i \in S THEN 0 ELSE @[i]],
                  !.tags = [i \in Images |-> IF i \in S THEN EmptyBag ELSE @[i]],
                  !.auto = [i \in Images |-> IF i \in S THEN NoJob ELSE @[i]],
                  !.clip = [i \in Images |-> IF i \in S THEN NoJob ELSE @[i]],
                  !.autoQ = SelectSeq(@, LAMBDA i : i \notin S),
                  !.clipQ = SelectSeq(@, LAMBDA i : i \notin S)])

\* The images whose path is not among existing_paths (image i has path i).
MissingFrom(d, existing) == {i \in Images : d.images[i] # 0 /\ i \notin existing}

\* delete_missing_images returns 0 before any statement when the list of
\* paths is empty.
delete_missing_images(d, existing) ==
    IF existing = {} THEN d ELSE DeleteImageRows(d, MissingFrom(d, existing))

delete_missing_rowcount(d, existing) ==
    IF existing = {} THEN 0 ELSE Cardinality(MissingFrom(d, existing))

\* Scanner.mark_deleted: DELETE FROM images WHERE path = ?
mark_deleted(d, i) == DeleteImageRows(d, {j \in {i} : d.images[j] # 0})

\* DELETE FROM clip_embeddings WHERE model=?
purge_clip_vectors(d, model) ==
    [d EXCEPT !.clip = [i \in Images |-> IF @[i].model = model THEN NoJob ELSE @[i]],
              !.clipQ = SelectSeq(@, LAMBDA i : d.clip[i].model # model)]

\* 0 stands for a path that no image row has.
Paths == 0..NumImages

\* The tag lists of the files ingested: none, one tag, and two tags of which
\* one shares its norm with, and differs in kind from, the tag of the second list.
FileTagLists ==
    LET rec(kind, norm) ==
            [kind |-> kind, norm |-> norm, weight |-> 1, source |-> "embedded"]
    IN {<<>>, <<rec("prompt", "a")>>, <<rec("rating", "a"), rec("prompt", "b")>>}

ImageCall(op, i, existing, model, result) ==
    [op |-> op, image |-> i, paths |-> existing, model |-> model, result |-> result]

\* Calls on the shared connection. It joins the transaction that a statement
\* outside a `with` block left open on it, and commits it with its own.
Img_upsert_image_record(i, ver, T) ==
    /\ writer \in {"none", "shared"}
    /\ Commit(FireTriggers(conn, upsert_image_record(conn, i, ver, T)))
    /\ last' = ImageCall("upsert", i, {}, "none", 0)
    /\ UNCHANGED <<queueVars, threadVars>>

\* ensure_auto_tag_job / ensure_clip_entry as ingest_path calls them, for an
\* image that has its row.
Img_ensure_job(kind, i) ==
    /\ writer \in {"none", "shared"}
    /\ conn.images[i] # 0
    /\ Commit(ensure_job(conn, kind, i, CfgModel, FALSE))
    /\ last' = ImageCall("ensure", i, {}, CfgModel, 0)
    /\ UNCHANGED <<queueVars, threadVars>>

Img_delete_missing_images(existing) ==
    /\ writer \in {"none", "shared"}
    /\ Commit(delete_missing_images(conn, existing))
    /\ last' = ImageCall("delete_missing", 0, existing, "none",
                         delete_missing_rowcount(conn, existing))
    /\ UNCHANGED <<queueVars, threadVars>>

Img_mark_deleted(i) ==
    /\ writer \in {"none", "shared"}
    /\ Commit(mark_deleted(conn, i))
    /\ last' = ImageCall("mark_deleted", i, {}, "none", 0)
    /\ UNCHANGED <<queueVars, threadVars>>

\* purge_clip_vectors executes its DELETE on the shared connection outside a
\* `with` block: the implicit transaction stays open.
Img_purge_clip_vectors(model) ==
    /\ writer \in {"none", "shared"}
    /\ conn' = purge_clip_vectors(conn, model)
    /\ writer' = "shared"
    /\ last' = ImageCall("purge", 0, {}, model, 0)
    /\ UNCHANGED <<db, queueVars, threadVars>>

\* ingest_path for the readable file of image i at content version ver, as
\* scan_pngs calls it: the record is upserted unless it is unchanged, and the
\* jobs are ensured.
IngestedFile(d, i, ver) ==
    LET changed == lookup_image(d, i) # ver
        d1 == IF changed
              THEN FireTriggers(d, upsert_image_record(d, i, ver, FileTags(ver)))
              ELSE d
    IN ensure_job(ensure_job(d1, "auto", i, CfgModel, changed),
                  "clip", i, CfgModel, changed)

\* The loop of scan_pngs over the candidates n..NumImages that are on disk:
\* a file whose ingest raises is logged and skipped.
RECURSIVE IngestCandidates(_, _, _, _, _)
IngestCandidates(d, n, files, raised, ver) ==
    IF n > NumImages THEN d
    ELSE IngestCandidates(IF n \in files \ raised THEN IngestedFile(d, n, ver)
                          ELSE d,
                          n + 1, files, raised, ver)

\* scan_pngs: the path of a candidate is observed once its ingest has
\* returned; when some path was observed, every image whose path was not is
\* deleted.
scan_pngs(d, files, raised, ver) ==
    LET observed_paths == files \ raised
        e == IngestCandidates(d, 1, files, raised, ver)
    IN IF observed_paths # {} THEN delete_missing_images(e, observed_paths)
       ELSE e

\* One scan: `files` are the images whose file is on disk, `raised` those
\* among them whose ingest raises.
Img_scan_pngs(files, raised, ver) ==
    /\ writer \in {"none", "shared"}
    /\ raised \subseteq files
    /\ Commit(scan_pngs(conn, files, raised, ver))
    /\ last' = [op |-> "scan", image |-> 0, paths |-> files, model |-> "none",
                result |-> 0, raised |-> raised]
    /\ UNCHANGED <<queueVars, threadVars>>

ImagesInit ==
    /\ db = IndexedStore
    /\ conn = IndexedStore
    /\ writer = "none"
    /\ last = ImageCall("none", 0, {}, "none", 0)
    /\ phase = "running"
    /\ atBoot = EmptyStore
    /\ cl = [c \in Claimants |-> IdleClaimant]
    /\ wk = IdleWorker
    /\ ck = IdleWorker
    /\ sc = IdleScanner
    /\ paused = {}

ImagesNext ==
    \/ \E i \in Images, ver \in Versions, T \in FileTagLists :
          Img_upsert_image_record(i, ver, T)
    \/ \E kind \in JobKinds, i \in Images : Img_ensure_job(kind, i)
    \/ \E existing \in SUBSET Paths : Img_delete_missing_images(existing)
    \/ \E i \in Images : Img_mark_deleted(i)
    \/ \E model \in Models : Img_purge_clip_vectors(model)
    \/ \E files \in SUBSET Images, raised \in SUBSET Images, ver \in Versions :
          Img_scan_pngs(files, raised, ver)

SpecImages == ImagesInit /\ [][ImagesNext]_vars

\* C17: delete_missing_images(P) deletes exactly the images whose path is not
\* in P, all of them when P is empty, leaves the others in place and returns
\* the number of images it deleted.
C17_DeletesExactlyMissing ==
    [][last'.op = "delete_missing" =>
          LET gone == {i \in Images : conn.images[i] # 0 /\ i \notin last'.paths}
          IN /\ conn'.images
                    = [i \in Images |-> IF i \in gone THEN 0 ELSE conn.images[i]]
             /\ last'.result = Cardinality(gone)]_vars

\* C36: a scan deletes the record of no image whose file was found on disk
\* during the scan, also when the ingest of that file raised: its images row,
\* its tags and its jobs are still there after the scan.
C36_ScanKeepsFoundImages ==
    [][last'.op = "scan" =>
          \A i \in last'.paths :
              conn.images[i] # 0
                  => /\ conn'.images[i] # 0
                     /\ (i \in last'.raised
                            => /\ conn'.tags[i] = conn.tags[i]
                               /\ conn'.auto[i] = conn.auto[i]
                               /\ conn'.clip[i] = conn.clip[i])]_vars

\* C36, for the scans in which no ingest raises.
C36_ScanKeepsIngestedImages ==
    [][(last'.op = "scan" /\ last'.raised = {}) =>
          \A i \in last'.paths : conn'.images[i] # 0]_vars

\* Every tags row, tag_index entry and job row of the view d has its image,
\* and the index holds one entry per tags row.
RowsOwned(d) ==
    \A i \in Images :
        /\ d.images[i] = 0 =>
              /\ d.tags[i] = EmptyBag /\ d.index[i] = EmptyBag
              /\ d.auto[i] = NoJob /\ d.clip[i] = NoJob
        /\ d.index[i] = IndexRows(d.tags[i])

\* C18: after any sequence of image insertions, updates and deletions every
\* tags row, index entry and job row belongs to an existing image, the index
\* holds exactly one entry per tags row, and no step deletes the job row of
\* an image that still exists.
C18_RowsFollowTheirImage ==
    /\ []RowsOwned(conn)
    /\ [][\A kind \in JobKinds : \A i \in Images :
              (JobsOf(conn, kind)[i] # NoJob /\ conn'.images[i] # 0)
                  => JobsOf(conn', kind)[i] # NoJob]_vars

\* ------------------------------------------------------------ search
\* Query tokens (norm, kind, exclude) as parse_query_tokens returns them: the
\* kind is "any" for an unscoped term, else the scope of its prefix.
MaxTokens == 2

SearchKinds == {"prompt", "character", "negative"}
SearchNorms == {"masterpiece", "lowres"}
QueryKinds == {"any", "prompt", "character", "negative"}
QueryToken == [norm : SearchNorms, kind : QueryKinds, exclude : BOOLEAN]
TokenLists == UNION {[1..n -> QueryToken] : n \in 0..MaxTokens}

\* The subquery with the restriction to kind dropped.
ClauseIds_any_kind(d, tok) ==
    {i \in Images : \E e \in BagToSet(d.index[i]) : e.norm = tok.norm}

\* One subquery of build_matched_cte:
\*   SELECT DISTINCT image_id FROM tag_index
\*   WHERE kind IN ('prompt','character') AND tag_index MATCH 'norm:"<norm>"'
\* for kind "any", WHERE kind=? AND ... otherwise. The tokenizer keeps the
\* characters of a normalized tag in one token, so the match is on the whole
\* norm.
ClauseIds(d, tok) ==
    {i \in Images :
        \E e \in BagToSet(d.index[i]) :
            /\ e.norm = tok.norm
            /\ IF tok.kind = "any" THEN e.kind \in {"prompt", "character"}
               ELSE e.kind = tok.kind}

\* ' INTERSECT '.join(positive_clauses), for a list that is not empty.
RECURSIVE IntersectClauses(_, _)
IntersectClauses(d, toks) ==
    IF Len(toks) = 1 THEN ClauseIds(d, Head(toks))
    ELSE ClauseIds(d, Head(toks)) \cap IntersectClauses(d, Tail(toks))

\* ' UNION '.join(negative_clauses)
RECURSIVE UnionClauses(_, _)
UnionClauses(d, toks) ==
    IF toks = <<>> THEN {}
    ELSE ClauseIds(d, Head(toks)) \cup UnionClauses(d, Tail(toks))

\* The rows of the CTE `matched` that build_matched_cte writes.
build_matched_cte(d, tokens) ==
    LET positives == SelectSeq(tokens, LAMBDA t : ~t.exclude)
        negatives == SelectSeq(tokens, LAMBDA t : t.exclude)
        ids == {i \in Images : d.images[i] # 0}
        included == IF positives # <<>>
                    THEN {i \in ids : i \in IntersectClauses(d, positives)}
                    ELSE ids
    IN IF negatives # <<>>
       THEN {i \in included : i \notin UnionClauses(d, negatives)}
       ELSE included

matched_image_ids(d, tokens) ==
    IF tokens = <<>> THEN {i \in Images : d.images[i] # 0}
    ELSE build_matched_cte(d, tokens)

\* The stores searched: every image has no row, or a row and at most MaxLen
\* tags rows with distinct (kind, norm), indexed by trigger tags_ai.
SearchRows ==
    {S \in SUBSET [kind : SearchKinds, norm : SearchNorms,
                   weight : {1}, source : {"embedded"}] : Cardinality(S) <= MaxLen}
SearchStores ==
    {[IndexedStore EXCEPT
          !.images = [i \in Images |-> IF rows[i] = <<>> THEN 0 ELSE 1],
          !.tags = [i \in Images |->
                       IF rows[i] = <<>> THEN EmptyBag ELSE SetToBag(rows[i][1])],
          !.index = [i \in Images |->
                       IF rows[i] = <<>> THEN EmptyBag
                       ELSE IndexRows(SetToBag(rows[i][1]))]] :
        rows \in [Images -> {<<>>} \cup {<<S>> : S \in SearchRows}]}

Call_matched_image_ids ==
    /\ last.op = "query"
    /\ last' = [op |-> "search", tokens |-> last.tokens,
                result |-> matched_image_ids(conn, last.tokens)]
    /\ UNCHANGED <<storeVars, queueVars, threadVars>>

SearchInit ==
    /\ db \in SearchStores
    /\ conn = db
    /\ writer = "none"
    /\ last \in [op : {"query"}, tokens : TokenLists, result : {{}}]
    /\ phase = "running"
    /\ atBoot = EmptyStore
    /\ cl = [c \in Claimants |-> IdleClaimant]
    /\ wk = IdleWorker
    /\ ck = IdleWorker
    /\ sc = IdleScanner
    /\ paused = {}

SearchNext == Call_matched_image_ids

SpecSearch == SearchInit /\ [][SearchNext]_vars

\* Image i of view d satisfies the filter of token tok: it has a tags row
\* with the token's norm whose kind is the token's scope, or prompt or
\* character when the term is unscoped.
Satisfies(d, i, tok) ==
    \E r \in BagToSet(d.tags[i]) :
        /\ r.norm = tok.norm
        /\ tok.kind = "any" => r.kind \in {"prompt", "character"}
        /\ tok.kind # "any" => r.kind = tok.kind

TaggedExactly(d, i, norms) ==
    /\ d.images[i] # 0
    /\ NormsOf(d.tags[i]) = norms
    /\ \A r \in BagToSet(d.tags[i]) : r.kind = "prompt"

MasterpieceNotLowres ==
    <<[norm |-> "masterpiece", kind |-> "any", exclude |-> FALSE],
      [norm |-> "lowres", kind |-> "any", exclude |-> TRUE]>>

\* C11: the matched set of a token list is exactly the images that satisfy
\* every positive filter and no negative filter; with no tokens it is every
\* image; an unscoped term matches tags of kind prompt or character only;
\* and for 'masterpiece, -lowres' an image tagged only masterpiece matches
\* while one tagged masterpiece and lowres does not.
C11_MatchedSet ==
    last.op = "search" =>
        /\ last.result =
              {i \in Images :
                  /\ db.images[i] # 0
                  /\ \A n \in 1..Len(last.tokens) :
                        Satisfies(db, i, last.tokens[n]) <=> ~last.tokens[n].exclude}
        /\ last.tokens = <<>> => last.result = {i \in Images : db.images[i] # 0}
        /\ last.tokens = MasterpieceNotLowres =>
              \A i \in Images :
                  /\ TaggedExactly(db, i, {"masterpiece"}) => i \in last.result
                  /\ TaggedExactly(db, i, {"masterpiece", "lowres"})
                        => i \notin last.result

\* 'masterpiece, -lowres' was searched in a store where image 1 is tagged
\* only masterpiece and image 2 masterpiece and lowres; image 1 alone matched.
C11_Witness ==
    /\ last.op = "search" /\ last.tokens = MasterpieceNotLowres
    /\ TaggedExactly(db, 1, {"masterpiece"})
    /\ TaggedExactly(db, 2, {"masterpiece", "lowres"})
    /\ last.result = {1}

\* ------------------------------------------------- progress snapshots
\* auto_tag_progress_counts / clip_progress_counts on the view d: the rows
\* (of the configured model, for the embeddings), those ready, those pending
\* or processing, and those in error.
StoreCounts(w, d) ==
    LET rows == {i \in Images : /\ JobsOf(d, w)[i] # NoJob
                                /\ (w = "clip" => JobsOf(d, w)[i].model = CfgModel)}
    IN [total |-> Cardinality(rows),
        completed |-> Cardinality({i \in rows : JobsOf(d, w)[i].status = "ready"}),
        processing |-> Cardinality({i \in rows : JobsOf(d, w)[i].status \in {"pending", "processing"}}),
        errors |-> Cardinality({i \in rows : JobsOf(d, w)[i].status = "error"})]

\* The 'state' of AutoTagProgress.snapshot / ClipProgress.snapshot: "paused"
\* when the progress object's paused flag is set, else "running" while the
\* counts give a processing or a queued number, else "idle".
snapshot_state(w, d) ==
    LET flag == IF w = "auto" THEN wk.reported ELSE ck.reported
        c == StoreCounts(w, d)
        queued == c.total - c.completed - c.processing - c.errors
    IN IF flag = "paused" THEN "paused"
       ELSE IF c.processing > 0 \/ queued > 0 THEN "running" ELSE "idle"

\* C16: from the return of pause() until resume() is called, the snapshot of
\* the paused worker, AutoTagIndexer or ClipIndexer, reports state 'paused',
\* whatever its thread is doing.
C16_PausedIsReported ==
    \A w \in paused : snapshot_state(w, conn) = "paused"

\* ------------------------------------------- the workers, scheduled fairly
\* The two indexer threads with no pause and no stop requested. The thread
\* scheduler lets each thread take its next step whenever it has one.
WorkersNext == AutoNext \/ ClipNext

SpecFair ==
    /\ Init
    /\ [][WorkersNext]_vars
    /\ WF_vars(AutoNext)
    /\ WF_vars(ClipNext)

\* C14: with the workers neither paused nor stopped and scheduled fairly,
\* every job that is pending eventually is ready, skipped or error, whatever
\* fails on other items or earlier batches.
C14_PendingReachesTerminal ==
    \A kind \in JobKinds : \A i \in Images :
        (JobsOf(db, kind)[i].status = "pending")
            ~> (JobsOf(db, kind)[i].status \in {"ready", "skipped", "error"})

\* ------------------------------------------------------------ shutdown
\* main, `finally:` clip_indexer.stop(): the stop event and the pause event
\* are set.
Main_stop_clip ==
    /\ phase = "running"
    /\ phase' = "stop_clip"
    /\ paused' = paused \ {"clip"}
    /\ UNCHANGED <<storeVars, last, atBoot, cl, wk, ck, sc>>

\* main: clip_indexer.join() has returned; auto_indexer.stop().
Main_stop_auto ==
    /\ phase = "stop_clip"
    /\ ck.pc \in {"stopped", "dead"}
    /\ phase' = "stop_auto"
    /\ paused' = paused \ {"auto"}
    /\ UNCHANGED <<storeVars, last, atBoot, cl, wk, ck, sc>>

\* The workers, the pause and resume requests of the HTTP server while it
\* serves, and the shutdown.
StopNext ==
    \/ AutoNext
    \/ ClipNext
    \/ \E w \in JobKinds : phase = "running" /\ Pause(w)
    \/ \E w \in JobKinds : phase = "running" /\ Resume(w)
    \/ Main_stop_clip
    \/ Main_stop_auto

\* The thread scheduler lets each worker thread and the main thread take its
\* next step whenever it has one.
SpecStop ==
    /\ Init
    /\ [][StopNext]_vars
    /\ WF_vars(AutoNext)
    /\ WF_vars(ClipNext)
    /\ WF_vars(Main_stop_auto)

Terminated(w) == IF w = "auto" THEN wk.pc \in {"stopped", "dead"}
                 ELSE ck.pc \in {"stopped", "dead"}

\* No job of the batch the worker claimed last is left in processing.
BatchSettled(w, d) ==
    IF w = "auto"
    THEN \A n \in 1..Len(wk.batch) : d.auto[wk.batch[n]].status # "processing"
    ELSE \A n \in 1..Len(ck.batch) : d.clip[ck.batch[n]].status # "processing"

\* C38: once stop() has been called the worker thread terminates, also when
\* it is paused or waiting for work, and when it terminates no job of the
\* batch it had in flight is left short of a terminal status.
C38_StopTerminatesAfterBatch ==
    /\ \A w \in JobKinds : StopRequested(w) ~> Terminated(w)
    /\ [][\A w \in JobKinds :
             (StopRequested(w)' /\ ~Terminated(w) /\ Terminated(w)')
                 => BatchSettled(w, conn)']_vars

\* C38, the termination alone.
C38_StopTerminates ==
    \A w \in JobKinds : StopRequested(w) ~> Terminated(w)

\* ----------------------------------------------------- the prompt parser
\* A text is the sequence of its characters. Weights are kept exactly: the
\* float 1.1^strong * 0.9^weak * mant / 10^scale is the record of its four
\* numbers.
MaxWrap == 2

LowerCase == <<"a", "b", "c", "d", "e", "f", "g", "h", "i", "j", "k", "l", "m", "n", "o", "p", "q", "r", "s", "t", "u", "v", "w", "x", "y", "z">>
UpperCase == <<"A", "B", "C", "D", "E", "F", "G", "H", "I", "J", "K", "L", "M", "N", "O", "P", "Q", "R", "S", "T", "U", "V", "W", "X", "Y", "Z">>
DecimalDigits == <<"0", "1", "2", "3", "4", "5", "6", "7", "8", "9">>
Letters == {LowerCase[n] : n \in 1..Len(LowerCase)}
Digits == {DecimalDigits[n] : n \in 1..Len(DecimalDigits)}
TagChars == Letters \cup Digits \cup {"_", ":", "-"}

\* str.lower() on the characters modelled.
Lower(c) ==
    IF \E n \in 1..Len(UpperCase) : UpperCase[n] = c
    THEN LowerCase[CHOOSE n \in 1..Len(UpperCase) : UpperCase[n] = c]
    ELSE c

RECURSIVE LStrip(_, _)
LStrip(s, S) == IF s # <<>> /\ Head(s) \in S THEN LStrip(Tail(s), S) ELSE s

RECURSIVE RStrip(_, _)
RStrip(s, S) ==
    IF s # <<>> /\ s[Len(s)] \in S THEN RStrip(SubSeq(s, 1, Len(s) - 1), S) ELSE s

\* str.strip(): the white space of the texts modelled is the blank.
Strip(s) == LStrip(RStrip(s, {" "}), {" "})

\* pattern.sub(r, s) for a pattern S+ : every maximal run of characters of S
\* becomes r.
RECURSIVE ReplaceRuns(_, _, _)
ReplaceRuns(s, S, r) ==
    IF s = <<>> THEN <<>>
    ELSE IF Head(s) \in S THEN <<r>> \o ReplaceRuns(LStrip(s, S), S, r)
    ELSE <<Head(s)>> \o ReplaceRuns(Tail(s), S, r)

\* The normalization without its closing strip("_").
normalize_tag_unstripped(tag) ==
    LET stripped == Strip(tag)
        value == [n \in 1..Len(stripped) |-> Lower(stripped[n])]
        spaced == ReplaceRuns(value, {" "}, "_")
        kept == [n \in 1..Len(spaced) |->
                    IF spaced[n] \in TagChars THEN spaced[n] ELSE "_"]
    IN ReplaceRuns(kept, {"_"}, "_")

\* normalize_tag: strip().lower(), then the three substitutions in order
\* (runs of white space, characters outside [a-z0-9_:-], runs of '_'), then
\* strip("_").
normalize_tag(tag) ==
    LET stripped == Strip(tag)
        value == [n \in 1..Len(stripped) |-> Lower(stripped[n])]
        spaced == ReplaceRuns(value, {" "}, "_")
        kept == [n \in 1..Len(spaced) |->
                    IF spaced[n] \in TagChars THEN spaced[n] ELSE "_"]
        collapsed == ReplaceRuns(kept, {"_"}, "_")
    IN LStrip(RStrip(collapsed, {"_"}), {"_"})

\* split_prompt: the loop over the characters, a comma splitting only at
\* brace and bracket level 0.
RECURSIVE SplitLoop(_, _, _, _, _)
SplitLoop(text, buf, brace_level, bracket_level, tokens) ==
    LET token == Strip(buf)
        flushed == IF token # <<>> THEN Append(tokens, token) ELSE tokens
        ch == Head(text)
    IN IF text = <<>> THEN flushed
       ELSE IF ch = "," /\ brace_level = 0 /\ bracket_level = 0
            THEN SplitLoop(Tail(text), <<>>, brace_level, bracket_level, flushed)
       ELSE SplitLoop(Tail(text), Append(buf, ch),
                IF ch = "{" THEN brace_level + 1
                ELSE IF ch = "}" /\ brace_level > 0 THEN brace_level - 1
                ELSE brace_level,
                IF ch = "{" \/ (ch = "}" /\ brace_level > 0) THEN bracket_level
                ELSE IF ch = "[" THEN bracket_level + 1
                ELSE IF ch = "]" /\ bracket_level > 0 THEN bracket_level - 1
                ELSE bracket_level,
                tokens)

split_prompt(text) == SplitLoop(text, <<>>, 0, 0, <<>>)

RECURSIVE strip_balanced_wrappers(_, _, _)
strip_balanced_wrappers(current, strong, weak) ==
    LET stripped == Strip(current)
        n == Len(stripped)
    IN IF n >= 2 /\ stripped[1] = "{" /\ stripped[n] = "}"
       THEN strip_balanced_wrappers(SubSeq(stripped, 2, n - 1), strong + 1, weak)
       ELSE IF n >= 2 /\ stripped[1] = "[" /\ stripped[n] = "]"
       THEN strip_balanced_wrappers(SubSeq(stripped, 2, n - 1), strong, weak + 1)
       ELSE [token |-> stripped, strong |-> strong, weak |-> weak]

RECURSIVE consume_leading_wrappers(_, _, _)
consume_leading_wrappers(token, strong, weak) ==
    IF token # <<>> /\ Head(token) = "{"
    THEN consume_leading_wrappers(Tail(token), strong + 1, weak)
    ELSE IF token # <<>> /\ Head(token) = "["
    THEN consume_leading_wrappers(Tail(token), strong, weak + 1)
    ELSE IF token # <<>> /\ Head(token) = " "
    THEN consume_leading_wrappers(Tail(token), strong, weak)
    ELSE [token |-> token, strong |-> strong, weak |-> weak]

\* The trailing blanks removed and the closing wrappers kept.
consume_trailing_wrappers_kept(token) == RStrip(token, {" "})

consume_trailing_wrappers(token) == RStrip(token, {"}", "]", " "})

\* The emphasis with the label for weak chosen when both wrappers occur.
wrapper_emphasis_weak_wins(strong, weak, inherited_emphasis) ==
    IF weak > 0 THEN "weak" ELSE IF strong > 0 THEN "strong" ELSE inherited_emphasis

wrapper_emphasis(strong, weak, inherited_emphasis) ==
    IF strong > 0 /\ weak = 0 THEN "strong"
    ELSE IF weak > 0 /\ strong = 0 THEN "weak"
    ELSE IF strong > 0 /\ weak > 0 THEN "strong"
    ELSE inherited_emphasis

\* int() of a run of decimal digits.
RECURSIVE DigitsValue(_)
DigitsValue(s) ==
    IF s = <<>> THEN 0
    ELSE LET c == s[Len(s)]
             v == (CHOOSE n \in 1..Len(DecimalDigits) : DecimalDigits[n] = c) - 1
         IN 10 * DigitsValue(SubSeq(s, 1, Len(s) - 1)) + v

\* The number parsed with every numeric prefix read as 1.0.
numeric_value_default(numeric_str) == [mant |-> 1, scale |-> 0]

\* float(numeric_str), 1.0 for a missing number or a bare sign: the value is
\* mant / 10^scale.
numeric_value(numeric_str) ==
    LET signed == numeric_str # <<>> /\ Head(numeric_str) \in {"+", "-"}
        digits == IF signed THEN Tail(numeric_str) ELSE numeric_str
        whole == SelectSeq(digits, LAMBDA c : c # ".")
        dot == IF \E n \in 1..Len(digits) : digits[n] = "."
               THEN CHOOSE n \in 1..Len(digits) : digits[n] = "."
               ELSE Len(digits)
        value == DigitsValue(whole)
    IN IF numeric_str \in {<<>>, <<"+">>, <<"-">>} THEN [mant |-> 1, scale |-> 0]
       ELSE [mant |-> IF Head(numeric_str) = "-" THEN 0 - value ELSE value,
             scale |-> Len(digits) - dot]

\* _weighted_prompt_re.match(token):
\*   ^([+-]?(?:\d*\.\d+|\d+)?)\s*::\s*(.*?)(?:\s*::\s*)?$
\* Group 1 is the longest prefix of sign, digits and dot, which has to be a
\* number or empty and be followed by blanks and '::'; the lazy group 2 ends
\* before a closing '::' when the rest ends with one.
weighted_prompt_re(token) ==
    LET sign == IF token # <<>> /\ Head(token) \in {"+", "-"} THEN 1 ELSE 0
        unsigned == SubSeq(token, sign + 1, Len(token))
        after == LStrip(unsigned, Digits \cup {"."})
        number == SubSeq(unsigned, 1, Len(unsigned) - Len(after))
        dots == {n \in 1..Len(number) : number[n] = "."}
        is_number == \/ number = <<>>
                     \/ dots = {}
                     \/ Cardinality(dots) = 1 /\ number[Len(number)] # "."
        sep == LStrip(after, {" "})
        has_sep == Len(sep) >= 2 /\ sep[1] = ":" /\ sep[2] = ":"
        rest == LStrip(SubSeq(sep, 3, Len(sep)), {" "})
        r == RStrip(rest, {" "})
        closed == Len(r) >= 2 /\ r[Len(r)] = ":" /\ r[Len(r) - 1] = ":"
    IN [matched |-> is_number /\ has_sep,
        numeric_str |-> SubSeq(token, 1, sign + Len(number)),
        text |-> IF closed THEN RStrip(SubSeq(r, 1, Len(r) - 2), {" "}) ELSE rest]

UnitWeight == [strong |-> 0, weak |-> 0, mant |-> 1, scale |-> 0]

\* _parse_prompt_token(raw_token, kind, weight_factor, inherited_emphasis);
\* "none" stands for the emphasis None. ParseEach is the loop over the
\* subtokens of a group.
RECURSIVE parse_prompt_token(_, _, _), ParseEach(_, _, _)
parse_prompt_token(raw_token, weight_factor, inherited_emphasis) ==
    LET balanced == strip_balanced_wrappers(Strip(raw_token), 0, 0)
        prefix == consume_leading_wrappers(balanced.token, 0, 0)
        token == consume_trailing_wrappers(prefix.token)
        strong == balanced.strong + prefix.strong
        weak == balanced.weak + prefix.weak
        local_weight == [weight_factor EXCEPT !.strong = @ + strong,
                                              !.weak = @ + weak]
        emphasis == wrapper_emphasis(strong, weak, inherited_emphasis)
        subtokens == split_prompt(token)
        weighted_match == weighted_prompt_re(token)
        numeric == numeric_value(weighted_match.numeric_str)
        text == IF weighted_match.matched THEN Strip(weighted_match.text) ELSE token
        final_emphasis == IF weighted_match.matched THEN "weighted"
                          ELSE IF emphasis = "none" THEN "normal" ELSE emphasis
        weight == IF weighted_match.matched
                  THEN [local_weight EXCEPT !.mant = @ * numeric.mant,
                                            !.scale = @ + numeric.scale]
                  ELSE local_weight
    IN IF Strip(raw_token) = <<>> \/ token = <<>> THEN <<>>
       ELSE IF Len(subtokens) > 1 THEN ParseEach(subtokens, local_weight, emphasis)
       ELSE IF text = <<>> \/ normalize_tag(text) = <<>> THEN <<>>
       ELSE <<[tag |-> Strip(text), norm |-> normalize_tag(text),
               emphasis |-> final_emphasis, weight |-> weight]>>

ParseEach(subtokens, weight_factor, inherited_emphasis) ==
    IF subtokens = <<>> THEN <<>>
    ELSE parse_prompt_token(Head(subtokens), weight_factor, inherited_emphasis)
             \o ParseEach(Tail(subtokens), weight_factor, inherited_emphasis)

\* The tokens parsed: up to MaxWrap opening wrappers, a tag or a group of two
\* tags, each plain or in the form <number>::text with or without the closing
\* '::', and the matching closing wrappers or none; blanks around the group
\* or not; after them, unmatched closing wrappers or none.
NumberLits == {<<>>, <<"2">>, <<"1", ".", "5">>, <<"-", "2">>, <<"+", ".", "5">>}
PromptItems ==
    {it \in [weighted : BOOLEAN, number : NumberLits,
             text : {<<"a">>, <<"a", " ", "b">>}, closed : BOOLEAN] :
        ~it.weighted => (it.number = <<>> /\ ~it.closed)}
Trailers == {<<>>, <<"}">>, <<"]">>, <<"}", "}">>, <<"]", "}">>}
PromptInputs ==
    [opens : UNION {[1..n -> {"{", "["}] : n \in 0..MaxWrap},
     pad : BOOLEAN,
     items : UNION {[1..n -> PromptItems] : n \in 1..2},
     balanced : BOOLEAN,
     trail : Trailers]

ItemText(it) ==
    IF it.weighted
    THEN it.number \o <<":", ":">> \o it.text
             \o (IF it.closed THEN <<":", ":">> ELSE <<>>)
    ELSE it.text

PromptText(p) ==
    LET pad == IF p.pad THEN <<" ">> ELSE <<>>
        n == Len(p.opens)
        closes == [k \in 1..n |-> IF p.opens[n + 1 - k] = "{" THEN "}" ELSE "]"]
        body == IF Len(p.items) = 1 THEN ItemText(p.items[1])
                ELSE ItemText(p.items[1]) \o <<",">> \o ItemText(p.items[2])
    IN p.opens \o pad \o body \o pad \o (IF p.balanced THEN closes ELSE <<>>)
           \o p.trail

Call_parse_prompt_token ==
    /\ last.op = "token"
    /\ last' = [last EXCEPT
                   !.op = "parsed",
                   !.records = parse_prompt_token(PromptText(last.input),
                                                  UnitWeight, "none")]
    /\ UNCHANGED <<storeVars, queueVars, threadVars>>

PromptInit ==
    /\ db = EmptyStore
    /\ conn = EmptyStore
    /\ writer = "none"
    /\ last \in [op : {"token"}, input : PromptInputs, records : {<<>>}]
    /\ phase = "running"
    /\ atBoot = EmptyStore
    /\ cl = [c \in Claimants |-> IdleClaimant]
    /\ wk = IdleWorker
    /\ ck = IdleWorker
    /\ sc = IdleScanner
    /\ paused = {}

PromptNext == Call_parse_prompt_token

SpecPrompt == PromptInit /\ [][PromptNext]_vars

\* The numbers of '{' and of '[' among the wrappers of input p.
Braces(p) == Cardinality({n \in 1..Len(p.opens) : p.opens[n] = "{"})
Brackets(p) == Cardinality({n \in 1..Len(p.opens) : p.opens[n] = "["})

\* A parsed token or group of plain tags in balanced wrappers.
PlainBalanced ==
    /\ last.op = "parsed" /\ last.input.balanced /\ last.input.trail = <<>>
    /\ \A n \in 1..Len(last.input.items) : ~last.input.items[n].weighted

\* Every tag of the input has its record, in order, with the weight of the
\* wrappers.
PlainWeights ==
    /\ Len(last.records) = Len(last.input.items)
    /\ \A n \in 1..Len(last.records) :
          /\ last.records[n].tag = last.input.items[n].text
          /\ last.records[n].weight =
                [strong |-> Braces(last.input), weak |-> Brackets(last.input),
                 mant |-> 1, scale |-> 0]

\* C19 as stated: for every n >= 0, n balanced '{}' pairs give each tag
\* weight 1.1^n and emphasis strong, n balanced '[]' pairs weight 0.9^n and
\* emphasis weak, and both kinds the product and emphasis strong.
C19_WrappersEveryN ==
    PlainBalanced =>
        /\ PlainWeights
        /\ \A n \in 1..Len(last.records) :
              /\ Brackets(last.input) = 0 => last.records[n].emphasis = "strong"
              /\ Braces(last.input) = 0 => last.records[n].emphasis = "weak"
              /\ (Braces(last.input) > 0 /\ Brackets(last.input) > 0)
                    => last.records[n].emphasis = "strong"

\* C19 amended: the weight is 1.1^n, 0.9^n or the product for every n >= 0;
\* the emphasis is strong or weak for n >= 1 pairs of one kind, strong when
\* both kinds occur, and normal for a tag in no wrapper.
C19_WrappersFromOne ==
    PlainBalanced =>
        /\ PlainWeights
        /\ \A n \in 1..Len(last.records) :
              last.records[n].emphasis =
                  IF Braces(last.input) > 0 THEN "strong"
                  ELSE IF Brackets(last.input) > 0 THEN "weak"
                  ELSE "normal"

\* A group of two plain tags in one '{}' and one '[]' pair was parsed into
\* two records of emphasis strong.
C19_Witness ==
    /\ PlainBalanced
    /\ Braces(last.input) = 1 /\ Brackets(last.input) = 1
    /\ Len(last.input.items) = 2
    /\ Len(last.records) = 2
    /\ last.records[2].emphasis = "strong"

\* C20: a token <number>::text::, the number optional and signed or not, the
\* closing '::' optional, in wrappers matched or not, alone or in a group,
\* yields a record of emphasis weighted whose weight is that of its wrappers
\* times the number, 1.0 when there is none.
C20_WeightedToken ==
    last.op = "parsed" =>
        /\ Len(last.records) = Len(last.input.items)
        /\ \A n \in 1..Len(last.records) :
              last.input.items[n].weighted =>
                  /\ last.records[n].tag = last.input.items[n].text
                  /\ last.records[n].emphasis = "weighted"
                  /\ last.records[n].weight =
                        [strong |-> Braces(last.input),
                         weak |-> Brackets(last.input),
                         mant |-> IF last.input.items[n].number = <<>> THEN 1
                                  ELSE IF last.input.items[n].number = <<"2">> THEN 2
                                  ELSE IF last.input.items[n].number = <<"-", "2">> THEN 0 - 2
                                  ELSE IF last.input.items[n].number = <<"1", ".", "5">> THEN 15
                                  ELSE 5,
                         scale |-> IF last.input.items[n].number
                                        \in {<<"1", ".", "5">>, <<"+", ".", "5">>}
                                   THEN 1 ELSE 0]

\* '{[-2::a b::]}' style input: a closed token with number -2 in one '{}' and
\* one '[]' pair was parsed into a weighted record of weight 1.1 * 0.9 * -2.
C20_Witness ==
    /\ last.op = "parsed" /\ last.input.balanced
    /\ Len(last.input.items) = 1
    /\ last.input.items[1].weighted /\ last.input.items[1].closed
    /\ last.input.items[1].number = <<"-", "2">>
    /\ Braces(last.input) = 1 /\ Brackets(last.input) = 1
    /\ Len(last.records) = 1
    /\ last.records[1].emphasis = "weighted"
    /\ last.records[1].weight = [strong |-> 1, weak |-> 1, mant |-> 0 - 2, scale |-> 0]

\* A parsed input whose wrappers are not balanced: opening wrappers left
\* unclosed, or closing wrappers that match no opening one.
Unbalanced ==
    /\ last.op = "parsed"
    /\ \/ last.input.opens # <<>> /\ ~last.input.balanced
       \/ last.input.trail # <<>>

\* C39: unbalanced wrapping is accepted. Every tag of the token, alone or a
\* member of a comma group, has its record; each leading '{' and '[' puts
\* its factor 1.1 or 0.9 into the weight of every record, and the unmatched
\* trailing '}' and ']' are removed and change neither weight nor emphasis:
\* a plain tag is strong under a '{', weak under '[' alone, normal under no
\* opening wrapper.
C39_UnbalancedWrappers ==
    Unbalanced =>
        /\ Len(last.records) = Len(last.input.items)
        /\ \A n \in 1..Len(last.records) :
              /\ last.records[n].tag = last.input.items[n].text
              /\ last.records[n].weight.strong = Braces(last.input)
              /\ last.records[n].weight.weak = Brackets(last.input)
              /\ ~last.input.items[n].weighted =>
                    /\ last.records[n].weight.mant = 1
                    /\ last.records[n].weight.scale = 0
                    /\ last.records[n].emphasis =
                          IF Braces(last.input) > 0 THEN "strong"
                          ELSE IF Brackets(last.input) > 0 THEN "weak"
                          ELSE "normal"

\* '[ a, a b }}' style input: a group of two plain tags behind one unclosed
\* '[' and before two unmatched '}' was parsed into two records of weight
\* 0.9 and emphasis weak.
C39_Witness ==
    /\ last.op = "parsed" /\ ~last.input.balanced
    /\ last.input.opens = <<"[">> /\ last.input.trail = <<"}", "}">>
    /\ Len(last.input.items) = 2
    /\ \A n \in 1..2 : ~last.input.items[n].weighted
    /\ Len(last.records) = 2
    /\ \A n \in 1..2 :
          /\ last.records[n].emphasis = "weak"
          /\ last.records[n].weight = [strong |-> 0, weak |-> 1, mant |-> 1, scale |-> 0]

\* ------------------------------------------------------- nested wrappers
\* abs(a) > abs(b) for two weights, the powers of 1.1 and 0.9 they share
\* cancelled.
Abs(n) == IF n < 0 THEN 0 - n ELSE n
Over(n) == IF n > 0 THEN n ELSE 0
AbsGreater(a, b) ==
    LET ds == a.strong - b.strong
        dw == a.weak - b.weak
    IN Abs(a.mant) * 10^b.scale * 11^Over(ds) * 9^Over(dw) * 10^(Over(0 - ds) + Over(0 - dw))
         > Abs(b.mant) * 10^a.scale * 11^Over(0 - ds) * 9^Over(0 - dw) * 10^(Over(ds) + Over(dw))

\* results[record.norm] = record when the norm is new or the record is the
\* heavier one; results is kept in the order of insertion, as the dict is.
Collect(results, record) ==
    IF \E k \in 1..Len(results) : results[k].norm = record.norm
    THEN LET k == CHOOSE k \in 1..Len(results) : results[k].norm = record.norm
         IN IF AbsGreater(record.weight, results[k].weight)
            THEN [results EXCEPT ![k] = record]
            ELSE results
    ELSE Append(results, record)

RECURSIVE CollectAll(_, _)
CollectAll(records, results) ==
    IF records = <<>> THEN results
    ELSE CollectAll(Tail(records), Collect(results, Head(records)))

\* parse_prompt(text, kind)
parse_prompt(text) ==
    IF text = <<>> THEN <<>>
    ELSE CollectAll(ParseEach(split_prompt(text), UnitWeight, "none"), <<>>)

\* The prompts parsed are properly nested: up to MaxWrap pairs around one tag
\* or a group of two, each tag in up to MaxNest pairs of its own.
MaxNest == 1
Wrappers(max) == UNION {[1..n -> {"{", "["}] : n \in 0..max}
Closers(opens) ==
    [k \in 1..Len(opens) |-> IF opens[Len(opens) + 1 - k] = "{" THEN "}" ELSE "]"]
Wrapped(opens, body) == opens \o body \o Closers(opens)
NestedItems == [opens : Wrappers(MaxNest), text : {<<"a">>, <<"b">>}]
NestedInputs ==
    [opens : Wrappers(MaxWrap),
     items : UNION {[1..n -> NestedItems] : n \in 1..2}]

NestedText(p) ==
    Wrapped(p.opens,
            IF Len(p.items) = 1 THEN Wrapped(p.items[1].opens, p.items[1].text)
            ELSE Wrapped(p.items[1].opens, p.items[1].text) \o <<",">>
                     \o Wrapped(p.items[2].opens, p.items[2].text))

Call_parse_prompt ==
    /\ last.op = "prompt"
    /\ last' = [last EXCEPT !.op = "parsed",
                            !.records = parse_prompt(NestedText(last.input))]
    /\ UNCHANGED <<storeVars, queueVars, threadVars>>

NestedInit ==
    /\ db = EmptyStore
    /\ conn = EmptyStore
    /\ writer = "none"
    /\ last \in [op : {"prompt"}, input : NestedInputs, records : {<<>>}]
    /\ phase = "running"
    /\ atBoot = EmptyStore
    /\ cl = [c \in Claimants |-> IdleClaimant]
    /\ wk = IdleWorker
    /\ ck = IdleWorker
    /\ sc = IdleScanner
    /\ paused = {}

NestedNext == Call_parse_prompt

SpecNested == NestedInit /\ [][NestedNext]_vars

\* The number of pairs of wrapper c that enclose item n of input p.
Enclosing(p, n, c) ==
    Cardinality({k \in 1..Len(p.opens) : p.opens[k] = c})
        + Cardinality({k \in 1..Len(p.items[n].opens) : p.items[n].opens[k] = c})

\* The weight of item n of input p by the pairs that enclose it.
EnclosedWeight(p, n) ==
    [strong |-> Enclosing(p, n, "{"), weak |-> Enclosing(p, n, "["),
     mant |-> 1, scale |-> 0]

\* C40: for a properly nested prompt, every tag extracted has the weight
\* 1.1^s * 0.9^w of the s '{}' and w '[]' pairs that enclose an occurrence
\* of it, and every tag of the prompt is extracted; so two tags in the same
\* pairs have equal weights.
C40_WeightOfEnclosingPairs ==
    last.op = "parsed" =>
        /\ \A n \in 1..Len(last.input.items) :
              \E k \in 1..Len(last.records) :
                  last.records[k].tag = last.input.items[n].text
        /\ \A k \in 1..Len(last.records) :
              \E n \in 1..Len(last.input.items) :
                  /\ last.records[k].tag = last.input.items[n].text
                  /\ last.records[k].weight = EnclosedWeight(last.input, n)

\* C40 for a prompt of one tag: the weight of its record is that of the
\* pairs around it.
C40_WeightOfEnclosingPairsOneTag ==
    (last.op = "parsed" /\ Len(last.input.items) = 1) =>
        /\ Len(last.records) = 1
        /\ last.records[1].tag = last.input.items[1].text
        /\ last.records[1].weight = EnclosedWeight(last.input, 1)

\* ------------------------------------------------------------ normalize_tag
\* The texts normalized: every text of up to MaxChars characters over a
\* lower-case and an upper-case letter, a digit, the three marks kept, the
\* blank and a character outside [a-z0-9_:-].
MaxChars == 4

NormalizeAlphabet == {"a", "B", "1", "_", ":", "-", " ", "!"}
NormalizeTexts == UNION {[1..n -> NormalizeAlphabet] : n \in 0..MaxChars}

Call_normalize_tag ==
    /\ last.op = "text"
    /\ last' = [last EXCEPT !.op = "normalized",
                            !.result = normalize_tag(last.text)]
    /\ UNCHANGED <<storeVars, queueVars, threadVars>>

NormalizeInit ==
    /\ db = EmptyStore
    /\ conn = EmptyStore
    /\ writer = "none"
    /\ last \in [op : {"text"}, text : NormalizeTexts, result : {<<>>}]
    /\ phase = "running"
    /\ atBoot = EmptyStore
    /\ cl = [c \in Claimants |-> IdleClaimant]
    /\ wk = IdleWorker
    /\ ck = IdleWorker
    /\ sc = IdleScanner
    /\ paused = {}

NormalizeNext == Call_normalize_tag

SpecNormalize == NormalizeInit /\ [][NormalizeNext]_vars

\* C21: normalizing a normalized text changes nothing, and a normalized text
\* holds only characters of [a-z0-9_:-], no two underscores in a row, and no
\* underscore first or last.
C21_NormalizeIdempotent ==
    last.op = "normalized" =>
        LET r == last.result
        IN /\ normalize_tag(r) = r
           /\ \A n \in 1..Len(r) : r[n] \in TagChars
           /\ \A n \in 1..(Len(r) - 1) : ~(r[n] = "_" /\ r[n + 1] = "_")
           /\ r # <<>> => (r[1] # "_" /\ r[Len(r)] # "_")

\* ' B!_' style input: a text with an upper-case letter, a blank and a
\* character outside the set was normalized to a different, non-empty text.
C21_Witness ==
    /\ last.op = "normalized"
    /\ \E n \in 1..Len(last.text) : last.text[n] = "B"
    /\ \E n \in 1..Len(last.text) : last.text[n] = "!"
    /\ \E n \in 1..Len(last.text) : last.text[n] = " "
    /\ last.result # <<>>
    /\ last.result # last.text

\* ------------------------------------------------------ the query grammar
\* re.split(r"[,\n]", query): the pieces between the separators, empty ones
\* included.
RECURSIVE SplitQuery(_, _)
SplitQuery(query, buf) ==
    IF query = <<>> THEN <<buf>>
    ELSE IF Head(query) \in {",", "\n"} THEN <<buf>> \o SplitQuery(Tail(query), <<>>)
    ELSE SplitQuery(Tail(query), Append(buf, Head(query)))

StartsWith(s, p) == Len(s) >= Len(p) /\ SubSeq(s, 1, Len(p)) = p

\* while token.startswith(("-", "!")): exclude = True; token = token[1:].strip()
RECURSIVE StripNegation(_, _)
StripNegation(token, exclude) ==
    IF token # <<>> /\ Head(token) \in {"-", "!"}
    THEN StripNegation(Strip(Tail(token)), TRUE)
    ELSE [token |-> token, exclude |-> exclude]

\* The prefixes parse_query_tokens tests, in the order of its elif chain, each
\* with the kind it selects.
ScopePrefixes ==
    <<[text |-> <<"c", "h", "a", "r", ":">>, kind |-> "character"],
      [text |-> <<"c", "h", "a", "r", "a", "c", "t", "e", "r", ":">>, kind |-> "character"],
      [text |-> <<"p", "r", "o", "m", "p", "t", ":">>, kind |-> "prompt"],
      [text |-> <<"u", "c", ":">>, kind |-> "negative"]>>

\* The body of the loop of parse_query_tokens for one piece of the query: no
\* token for an empty piece or an empty key.
parse_query_term(raw) ==
    LET first == StripNegation(Strip(raw), FALSE)
        lowered == [n \in 1..Len(first.token) |-> Lower(first.token[n])]
        hits == {n \in 1..Len(ScopePrefixes) : StartsWith(lowered, ScopePrefixes[n].text)}
        hit == CHOOSE n \in hits : \A m \in hits : n <= m
        kind == IF hits = {} THEN "any" ELSE ScopePrefixes[hit].kind
        scoped == IF hits = {} THEN first.token
                  ELSE Strip(SubSeq(first.token, Len(ScopePrefixes[hit].text) + 1,
                                    Len(first.token)))
        second == StripNegation(scoped, first.exclude)
        norm == normalize_tag(second.token)
    IN IF Strip(raw) = <<>> \/ norm = <<>> THEN <<>>
       ELSE <<[norm |-> norm, kind |-> kind, exclude |-> second.exclude]>>

RECURSIVE ParseTerms(_)
ParseTerms(pieces) ==
    IF pieces = <<>> THEN <<>>
    ELSE parse_query_term(Head(pieces)) \o ParseTerms(Tail(pieces))

parse_query_tokens(query) ==
    IF query = <<>> THEN <<>> ELSE ParseTerms(SplitQuery(query, <<>>))

\* The queries parsed: a term with or without a run of '-' and '!' before
\* its prefix and after it, with one of the prefixes of the grammar or none,
\* alone or followed by a second, plain term.
NegationRuns == {<<>>, <<"-">>, <<"!">>, <<"-", "!">>, <<"-", " ">>}
GrammarPrefixes ==
    {<<>>, <<"c", "h", "a", "r", ":">>, <<"c", "h", "a", "r", "a", "c", "t", "e", "r", ":">>, <<"p", "r", "o", "m", "p", "t", ":">>, <<"u", "c", ":">>,
     <<"r", "a", "t", "i", "n", "g", ":">>, <<"p", "a", "t", "h", ":">>, <<"i", "n", ":">>}
QueryTerms == {<<"a">>, <<"d", "a", "r", "k", "-", "s", "k", "i", "n", "n", "e", "d", "_", "f", "e", "m", "a", "l", "e">>, <<"a", "/", "b">>}
QueryInputs ==
    [lead : NegationRuns, prefix : GrammarPrefixes, inner : NegationRuns,
     term : QueryTerms, more : BOOLEAN]

QueryText(q) ==
    q.lead \o q.prefix \o q.inner \o q.term
        \o (IF q.more THEN <<",", " ", "b">> ELSE <<>>)

Call_parse_query_tokens ==
    /\ last.op = "query_text"
    /\ last' = [last EXCEPT !.op = "tokens",
                            !.tokens = parse_query_tokens(QueryText(last.input))]
    /\ UNCHANGED <<storeVars, queueVars, threadVars>>

QueryInit ==
    /\ db = EmptyStore
    /\ conn = EmptyStore
    /\ writer = "none"
    /\ last \in [op : {"query_text"}, input : QueryInputs, tokens : {<<>>}]
    /\ phase = "running"
    /\ atBoot = EmptyStore
    /\ cl = [c \in Claimants |-> IdleClaimant]
    /\ wk = IdleWorker
    /\ ck = IdleWorker
    /\ sc = IdleScanner
    /\ paused = {}

QueryNext == Call_parse_query_tokens

SpecQuery == QueryInit /\ [][QueryNext]_vars

\* The scope the grammar gives a prefix.
GrammarKind(prefix) ==
    IF prefix \in {<<"c", "h", "a", "r", ":">>, <<"c", "h", "a", "r", "a", "c", "t", "e", "r", ":">>} THEN "character"
    ELSE IF prefix = <<"p", "r", "o", "m", "p", "t", ":">> THEN "prompt"
    ELSE IF prefix = <<"u", "c", ":">> THEN "negative"
    ELSE IF prefix = <<"r", "a", "t", "i", "n", "g", ":">> THEN "rating"
    ELSE IF prefix \in {<<"p", "a", "t", "h", ":">>, <<"i", "n", ":">>} THEN "path"
    ELSE "any"

\* A query was parsed into one token per term.
ParsedQuery ==
    /\ last.op = "tokens"
    /\ Len(last.tokens) = IF last.input.more THEN 2 ELSE 1

\* C22: the first token is negated exactly when its term has a run of '-' or
\* '!' before or after the scope prefix, and the key of a tag term is the
\* normalized term itself, hyphens inside it kept and only the leading run
\* and the prefix removed.
C22_NegationRun ==
    last.op = "tokens" =>
        /\ ParsedQuery
        /\ last.tokens[1].exclude
              = (last.input.lead # <<>> \/ last.input.inner # <<>>)
        /\ GrammarKind(last.input.prefix) # "path"
              => last.tokens[1].norm = normalize_tag(last.input.term)

\* C22 for the prefixes parse_query_tokens tests for, and for no prefix.
C22_NegationRunKnownPrefix ==
    (last.op = "tokens" /\ GrammarKind(last.input.prefix) \notin {"rating", "path"}) =>
        /\ ParsedQuery
        /\ last.tokens[1].exclude
              = (last.input.lead # <<>> \/ last.input.inner # <<>>)
        /\ last.tokens[1].norm = normalize_tag(last.input.term)

\* C23: the first token has the scope of its prefix: character for 'char:'
\* and 'character:', prompt for 'prompt:', negative for 'uc:', rating for
\* 'rating:', a path filter with the pattern as written for 'path:' and
\* 'in:', and 'any' for no prefix; the key of a tag term is the normalized
\* term.
C23_PrefixScopes ==
    last.op = "tokens" =>
        /\ ParsedQuery
        /\ last.tokens[1].kind = GrammarKind(last.input.prefix)
        /\ last.tokens[1].norm =
              IF GrammarKind(last.input.prefix) = "path" THEN last.input.term
              ELSE normalize_tag(last.input.term)

\* C23 for the prefixes parse_query_tokens tests for, and for no prefix.
C23_PrefixScopesKnownPrefix ==
    (last.op = "tokens" /\ GrammarKind(last.input.prefix) \notin {"rating", "path"}) =>
        /\ ParsedQuery
        /\ last.tokens[1].kind = GrammarKind(last.input.prefix)
        /\ last.tokens[1].norm = normalize_tag(last.input.term)

\* ------------------------------------------------ progress rate and ETA
\* The progress object of a worker ("auto": AutoTagProgress, "clip":
\* ClipProgress) is kept in `last`. Times are whole seconds, a step of 0
\* standing for less than the threshold; a rate or an ETA is the fraction
\* num / den, and the record with den = 0 is None.
MaxSamples == 3
NumJobs == 3
HistoryCap == 60
MinDelta == 1
PerMinute == 60

TimeSteps == {0, 1, 60}
Undefined == [num |-> 0, den |-> 0]
Max(a, b) == IF a >= b THEN a ELSE b

\* The job table by status, and what auto_tag_progress_counts and
\* clip_progress_counts return for it: pending and processing rows are
\* counted together as 'processing'; only auto-tag jobs can be skipped.
JobTallies ==
    {j \in [ready : 0..NumJobs, active : 0..NumJobs, errors : 0..NumJobs,
            skipped : 0..NumJobs] :
        j.ready + j.active + j.errors + j.skipped = NumJobs}

progress_counts(j) ==
    [total |-> j.ready + j.active + j.errors + j.skipped,
     completed |-> j.ready, processing |-> j.active, errors |-> j.errors]

record_history(history, now, completed) ==
    LET sample == [time |-> now, completed |-> completed]
        n == Len(history)
        h == IF n > 0 /\ history[n].completed = completed
             THEN [history EXCEPT ![n] = sample]
             ELSE Append(history, sample)
    IN IF Len(h) > HistoryCap THEN SubSeq(h, Len(h) - HistoryCap + 1, Len(h)) ELSE h

\* AutoTagProgress.refresh_from_db and ClipIndexer._refresh_progress.
refresh_progress(w, p, c, now) ==
    [p EXCEPT !.total = c.total,
              !.completed = c.completed,
              !.processing = c.processing,
              !.error_count = c.errors,
              !.queued = IF w = "auto"
                         THEN Max(c.total - c.completed - c.processing - c.errors, 0)
                         ELSE Max(Max(c.total - c.errors, 0) - c.completed - c.processing, 0),
              !.history = record_history(p.history, now, c.completed)]

\* _compute_rate_eta of the two progress classes: the newest earlier sample
\* with a smaller count and at least MinDelta seconds before the latest.
compute_rate_eta(w, p) ==
    LET h == p.history
        latest == h[Len(h)]
        usable == {n \in 1..(Len(h) - 1) :
                      /\ latest.completed - h[n].completed > 0
                      /\ latest.time - h[n].time >= MinDelta}
        past == h[CHOOSE n \in usable : \A m \in usable : m <= n]
        delta_count == latest.completed - past.completed
        delta_time == latest.time - past.time
        remaining == IF w = "auto" THEN Max(p.queued + p.processing, 0)
                     ELSE Max(p.queued, 0)
    IN IF h = <<>> \/ usable = {}
       THEN [rate |-> [num |-> 0, den |-> 1], eta |-> Undefined]
       ELSE [rate |-> [num |-> delta_count * PerMinute, den |-> delta_time],
             eta |-> IF remaining > 0
                     THEN [num |-> remaining * delta_time, den |-> delta_count]
                     ELSE Undefined]

NewProgress(w) ==
    [op |-> "new", worker |-> w, now |-> 0, samples |-> 0,
     total |-> 0, completed |-> 0, processing |-> 0, queued |-> 0,
     error_count |-> 0, history |-> <<>>,
     rate |-> [num |-> 0, den |-> 1], eta |-> Undefined,
     data |-> [total |-> 0, completed |-> 0, processing |-> 0,
               error_count |-> 0, queued |-> 0, state |-> "idle"],
     active |-> 0, paused |-> FALSE,
     jobs |-> [ready |-> 0, active |-> 0, errors |-> 0, skipped |-> 0]]

\* The worker refreshes its progress from the job table, dt seconds after
\* the last refresh.
Progress_refresh(dt, j) ==
    /\ last.op \in {"new", "refresh", "batch", "snapshot"}
    /\ last.samples < MaxSamples
    /\ last.worker = "clip" => j.skipped = 0
    /\ last' = [refresh_progress(last.worker, last, progress_counts(j), last.now + dt)
                   EXCEPT !.op = "refresh", !.now = last.now + dt,
                          !.samples = last.samples + 1, !.jobs = j,
                          !.data = NewProgress(last.worker).data,
                          !.active = 0, !.paused = FALSE]
    /\ UNCHANGED <<storeVars, queueVars, threadVars>>

\* _process_batch sets progress.processing to the size of the batch it
\* reserved, and to 0 when it is done.
Progress_batch(n) ==
    /\ last.op = "refresh"
    /\ last' = [last EXCEPT !.op = "batch", !.processing = n]
    /\ UNCHANGED <<storeVars, queueVars, threadVars>>

\* snapshot(db): the counts read from the database, the queued number and the
\* state derived from them and from the paused flag.
snapshot_data(w, c, flag) ==
    LET queued == IF w = "auto"
                  THEN Max(c.total - c.completed - c.processing - c.errors, 0)
                  ELSE Max(Max(c.total - c.errors, 0) - c.completed - c.processing, 0)
    IN [total |-> c.total, completed |-> c.completed,
        processing |-> c.processing, error_count |-> c.errors,
        queued |-> queued,
        state |-> IF flag THEN "paused"
                  ELSE IF c.processing > 0 \/ queued > 0 THEN "running"
                  ELSE "idle"]

\* snapshot(db) with the job table as the last refresh found it and the
\* paused flag `flag`: the data of the database, and the rate and the ETA of
\* the progress as it stands.
Progress_snapshot(flag) ==
    /\ last.op \in {"refresh", "batch"}
    /\ last' = [last EXCEPT !.op = "snapshot",
                            !.rate = compute_rate_eta(last.worker, last).rate,
                            !.eta = compute_rate_eta(last.worker, last).eta,
                            !.data = snapshot_data(last.worker, progress_counts(last.jobs), flag),
                            !.active = last.jobs.active,
                            !.paused = flag]
    /\ UNCHANGED <<storeVars, queueVars, threadVars>>

ProgressInit ==
    /\ db = EmptyStore
    /\ conn = EmptyStore
    /\ writer = "none"
    /\ last \in {NewProgress(w) : w \in {"auto", "clip"}}
    /\ phase = "running"
    /\ atBoot = EmptyStore
    /\ cl = [c \in Claimants |-> IdleClaimant]
    /\ wk = IdleWorker
    /\ ck = IdleWorker
    /\ sc = IdleScanner
    /\ paused = {}

ProgressNext ==
    \/ \E dt \in TimeSteps : \E j \in JobTallies : Progress_refresh(dt, j)
    \/ \E n \in {0, BatchSize} : Progress_batch(n)
    \/ \E flag \in BOOLEAN : Progress_snapshot(flag)

SpecProgress == ProgressInit /\ [][ProgressNext]_vars

\* Equality of two fractions, None equal to None only.
SameFraction(a, b) ==
    IF a.den = 0 \/ b.den = 0 THEN a.den = b.den
    ELSE a.num * b.den = b.num * a.den

\* The estimate as the claim words it: the newest earlier sample at least
\* MinDelta seconds older than the latest, remaining = queued + processing.
ClaimedEstimate(p) ==
    LET h == p.history
        latest == h[Len(h)]
        older == {n \in 1..(Len(h) - 1) : latest.time - h[n].time >= MinDelta}
        past == h[CHOOSE n \in older : \A m \in older : m <= n]
        delta_count == latest.completed - past.completed
        delta_time == latest.time - past.time
        remaining == p.queued + p.processing
    IN IF older = {} \/ delta_count <= 0
       THEN [rate |-> [num |-> IF older = {} THEN 0 ELSE delta_count * PerMinute,
                       den |-> IF older = {} THEN 1 ELSE delta_time],
             eta |-> Undefined]
       ELSE [rate |-> [num |-> delta_count * PerMinute, den |-> delta_time],
             eta |-> [num |-> remaining * delta_time, den |-> delta_count]]

\* C24: a snapshot reports the rate (completed difference / time difference)
\* x 60 between the latest sample and the newest earlier sample at least the
\* threshold older, and the ETA remaining / rate in seconds when the rate is
\* positive, none otherwise, with remaining = queued + processing.
C24_RateAndEta ==
    (last.op = "snapshot" /\ last.history # <<>>) =>
        /\ SameFraction(last.rate, ClaimedEstimate(last).rate)
        /\ SameFraction(last.eta, ClaimedEstimate(last).eta)

\* C24 for AutoTagProgress, for histories whose counts never fall and with
\* work remaining.
C24_RateAndEtaAuto ==
    (/\ last.op = "snapshot" /\ last.history # <<>> /\ last.worker = "auto"
     /\ last.queued + last.processing > 0
     /\ \A n \in 1..(Len(last.history) - 1) :
           last.history[n].completed <= last.history[n + 1].completed) =>
        /\ SameFraction(last.rate, ClaimedEstimate(last).rate)
        /\ SameFraction(last.eta, ClaimedEstimate(last).eta)

\* C37: when no job is pending or processing and the worker is not paused,
\* the snapshot reports queued = 0, state 'idle' and no ETA; it reports
\* 'running' only while some job is pending or processing.
C37_IdleWhenNothingActive ==
    last.op = "snapshot" =>
        /\ (last.active = 0 /\ ~last.paused)
               => /\ last.data.queued = 0
                  /\ last.data.state = "idle"
                  /\ last.eta = Undefined
        /\ last.data.state = "running" => last.active > 0

\* C37 for the state and the queued number of the embedding worker, whose
\* jobs are never skipped.
C37_IdleWhenNothingActiveClip ==
    (last.op = "snapshot" /\ last.worker = "clip") =>
        /\ (last.active = 0 /\ ~last.paused)
               => (last.data.queued = 0 /\ last.data.state = "idle")
        /\ last.data.state = "running" => last.active > 0

\* ------------------------------------------------------------ tag facets
\* Rows of the tags table with their display text: tag is the text, norm its
\* normalization. The texts and keys are sequences of characters; texts are
\* compared as the BINARY collation compares them, character by character in
\* the order of their codes.
MaxLimit == 2

Ascii == <<" ", "!", "-", "0", "1", "2", "3", "4", "5", "6", "7", "8", "9", ":", "A", "B", "C", "D", "E", "F", "G", "H", "I", "J", "K", "L", "M", "N", "O", "P", "Q", "R", "S", "T", "U", "V", "W", "X", "Y", "Z", "_", "a", "b", "c", "d", "e", "f", "g", "h", "i", "j", "k", "l", "m", "n", "o", "p", "q", "r", "s", "t", "u", "v", "w", "x", "y", "z">>
CharCode(c) == CHOOSE n \in 1..Len(Ascii) : Ascii[n] = c

RECURSIVE TextLess(_, _)
TextLess(a, b) ==
    IF b = <<>> THEN FALSE
    ELSE IF a = <<>> THEN TRUE
    ELSE IF Head(a) = Head(b) THEN TextLess(Tail(a), Tail(b))
    ELSE CharCode(Head(a)) < CharCode(Head(b))

FacetKinds == {"prompt", "negative"}
FacetTags == {<<"A", "b">>, <<"a", "b">>, <<"x", "a", "b">>}
FacetRows ==
    {[tag |-> t, norm |-> normalize_tag(t), kind |-> k, weight |-> 1,
      source |-> "embedded"] : t \in FacetTags, k \in FacetKinds}
FacetRowSets == {S \in SUBSET FacetRows : Cardinality(S) <= MaxLen}
FacetStores ==
    {[IndexedStore EXCEPT
          !.images = [i \in Images |-> IF rows[i] = <<>> THEN 0 ELSE 1],
          !.tags = [i \in Images |->
                       IF rows[i] = <<>> THEN EmptyBag ELSE SetToBag(rows[i][1])],
          !.index = [i \in Images |->
                       IF rows[i] = <<>> THEN EmptyBag
                       ELSE IndexRows(SetToBag(rows[i][1]))]] :
        rows \in [Images -> {<<>>} \cup {<<S>> : S \in FacetRowSets}]}

\* The CASE of the ORDER BY with 'negative' ranked before the other kinds.
kind_priority_negative_first(kind) ==
    IF kind = "negative" THEN 0
    ELSE IF kind \in {"prompt", "rating", "character", "description"} THEN 1
    ELSE 2

\* CASE t.kind WHEN 'prompt' THEN 0 ... WHEN 'negative' THEN 1 ELSE 2 END
kind_priority(kind) ==
    IF kind \in {"prompt", "rating", "character", "description"} THEN 0
    ELSE IF kind = "negative" THEN 1
    ELSE 2

\* The rows of the images of M joined with matched: GROUP BY t.norm, t.kind.
FacetGroups(d, M) ==
    {[norm |-> r.norm, kind |-> r.kind] :
        r \in UNION {BagToSet(d.tags[i]) : i \in M}}

GroupRows(d, i, g) ==
    {r \in BagToSet(d.tags[i]) : r.norm = g.norm /\ r.kind = g.kind}

\* COUNT(*) of group g.
RECURSIVE GroupCount(_, _, _)
GroupCount(d, M, g) ==
    IF M = {} THEN 0
    ELSE LET i == CHOOSE x \in M : TRUE
         IN SumCopies(d.tags[i], GroupRows(d, i, g)) + GroupCount(d, M \ {i}, g)

\* The results the SELECT can return: t.tag is a bare column of the grouped
\* query, the text of some row of the group, and rows that tie on the three
\* ORDER BY terms come in any order.
FacetBefore(a, b) ==
    \/ kind_priority(a.kind) < kind_priority(b.kind)
    \/ /\ kind_priority(a.kind) = kind_priority(b.kind)
       /\ \/ a.freq > b.freq
          \/ a.freq = b.freq /\ TextLess(a.tag, b.tag)

FacetSelections(d, M) ==
    LET G == FacetGroups(d, M)
        shown == {f \in [G -> FacetTags] :
                     \A g \in G : \E i \in M : \E r \in GroupRows(d, i, g) : r.tag = f[g]}
    IN {{[tag |-> f[g], norm |-> g.norm, kind |-> g.kind,
          freq |-> GroupCount(d, M, g)] : g \in G} : f \in shown}

OrderedRows(E) ==
    {s \in [1..Cardinality(E) -> E] :
        /\ \A i, j \in 1..Cardinality(E) : s[i] = s[j] => i = j
        /\ \A i, j \in 1..Cardinality(E) : i < j => ~FacetBefore(s[j], s[i])}

Limited(s, limit) == SubSeq(s, 1, IF limit < Len(s) THEN limit ELSE Len(s))

collect_tag_facets(d, tokens, limit) ==
    {Limited(s, limit) :
        s \in UNION {OrderedRows(E) : E \in FacetSelections(d, matched_image_ids(d, tokens))}}

FacetToken == [norm : {<<"a", "b">>}, kind : {"any", "negative"}, exclude : BOOLEAN]
FacetQueries == {<<>>} \cup {<<t>> : t \in FacetToken}

Call_collect_tag_facets ==
    /\ last.op = "facet_query"
    /\ \E rows \in collect_tag_facets(conn, last.tokens, last.limit) :
          last' = [last EXCEPT !.op = "facets", !.result = rows]
    /\ UNCHANGED <<storeVars, queueVars, threadVars>>

\* -------------------------------------------------------- autocompletion
\* norm LIKE '%term%': '_' in the term matches any one character.
LikeMatch(text, term) ==
    \E k \in 0..(Len(text) - Len(term)) :
        \A n \in 1..Len(term) : term[n] = "_" \/ term[n] = text[k + n]

\* tag_index MATCH 'norm:term*': the keys that start with the term; a term
\* with a character that is no part of an FTS5 bareword is a syntax error,
\* which autocomplete_tags answers with no rows.
PrefixNorms(d, term) ==
    IF \E n \in 1..Len(term) : term[n] \notin Letters \cup Digits \cup {"_"}
    THEN {}
    ELSE {r.norm : r \in UNION {BagToSet(d.tags[i]) : i \in Images}}
             \cap {t \in {normalize_tag(x) : x \in FacetTags} : StartsWith(t, term)}

LikeNorms(d, term) ==
    {t \in {r.norm : r \in UNION {BagToSet(d.tags[i]) : i \in Images}} :
        LikeMatch(t, term)}

\* The kinds a kind filter lets through.
FilterKinds(kind_filter) ==
    IF kind_filter \in {"prompt", "negative", "character", "description", "rating"}
    THEN {kind_filter}
    ELSE {"prompt", "negative", "character", "description", "rating"}

\* GROUP BY norm, kind of the rows whose key is in N and whose kind passes
\* the filter, each group with the text of one of its rows and
\* COUNT(DISTINCT image_id).
CompletionSelections(d, N, kind_filter) ==
    LET G == {g \in FacetGroups(d, Images) :
                 g.norm \in N /\ g.kind \in FilterKinds(kind_filter)}
        shown == {f \in [G -> FacetTags] :
                     \A g \in G : \E i \in Images : \E r \in GroupRows(d, i, g) : r.tag = f[g]}
    IN {{[tag |-> f[g], norm |-> g.norm, kind |-> g.kind,
          freq |-> Cardinality({i \in Images : GroupRows(d, i, g) # {}})] : g \in G} :
            f \in shown}

\* ORDER BY freq DESC: rows of equal frequency in any order.
ByFrequency(E) ==
    {s \in [1..Cardinality(E) -> E] :
        /\ \A i, j \in 1..Cardinality(E) : s[i] = s[j] => i = j
        /\ \A i, j \in 1..Cardinality(E) : i < j => s[i].freq >= s[j].freq}

RankedRows(d, N, kind_filter) ==
    UNION {ByFrequency(E) : E \in CompletionSelections(d, N, kind_filter)}

\* The scope prefixes of autocomplete_tags, in the order of its elif chain;
\* the kind "" stands for the return of no suggestions.
CompletionPrefixes ==
    <<[text |-> <<"p", "a", "t", "h", ":">>, kind |-> ""],
      [text |-> <<"i", "n", ":">>, kind |-> ""],
      [text |-> <<"c", "h", "a", "r", ":">>, kind |-> "character"],
      [text |-> <<"c", "h", "a", "r", "a", "c", "t", "e", "r", ":">>, kind |-> "character"],
      [text |-> <<"p", "r", "o", "m", "p", "t", ":">>, kind |-> "prompt"],
      [text |-> <<"u", "c", ":">>, kind |-> "negative"],
      [text |-> <<"r", "a", "t", "i", "n", "g", ":">>, kind |-> "rating"]>>
ScopeKeywords ==
    {<<"p", "a", "t", "h">>, <<"i", "n">>, <<"p", "r", "o", "m", "p", "t">>, <<"c", "h", "a", "r">>, <<"c", "h", "a", "r", "a", "c", "t", "e", "r">>,
     <<"u", "c">>, <<"r", "a", "t", "i", "n", "g">>}

\* The rows appended from the LIKE query: those whose (norm, kind) the prefix
\* query did not return.
Unseen(like_rows, results) ==
    SelectSeq(like_rows,
              LAMBDA row : \A n \in 1..Len(results) :
                               ~(results[n].norm = row.norm /\ results[n].kind = row.kind))

\* autocomplete_tags: the lists it can return.
autocomplete_tags(d, prefix, kind_filter, limit) ==
    LET lowered == [n \in 1..Len(prefix) |-> Lower(prefix[n])]
        hits == {n \in 1..Len(CompletionPrefixes) :
                    StartsWith(lowered, CompletionPrefixes[n].text)}
        hit == CHOOSE n \in hits : \A m \in hits : n <= m
        search_term == IF hits = {} THEN prefix
                       ELSE Strip(SubSeq(prefix, Len(CompletionPrefixes[hit].text) + 1,
                                         Len(prefix)))
        extracted_kind_filter == IF hits = {} THEN kind_filter
                                 ELSE CompletionPrefixes[hit].kind
        norm == normalize_tag(search_term)
        all_norms == {r.norm : r \in UNION {BagToSet(d.tags[i]) : i \in Images}}
    IN IF prefix = <<>>
       THEN {Limited(s, limit) : s \in RankedRows(d, all_norms, kind_filter)}
       ELSE IF hits # {} /\ CompletionPrefixes[hit].kind = "" THEN {<<>>}
       ELSE IF hits = {} /\ lowered \in ScopeKeywords THEN {<<>>}
       ELSE IF search_term = <<>> \/ norm = <<>> THEN {<<>>}
       ELSE {Limited(results \o (IF Len(norm) >= 2
                                 THEN Unseen(Limited(like_rows, 2 * limit), results)
                                 ELSE <<>>), limit) :
                results \in RankedRows(d, PrefixNorms(d, norm), extracted_kind_filter),
                like_rows \in RankedRows(d, LikeNorms(d, norm), extracted_kind_filter)}

\* The prefixes completed: no text, a term alone or behind a scope prefix, a
\* scope prefix alone, a bare scope keyword.
CompletionScopes == {<<>>, <<"u", "c", ":">>, <<"p", "a", "t", "h", ":">>}
CompletionTerms == {<<>>, <<"a", "b">>, <<"b">>, <<"x", "_", "b">>}
CompletionInputs ==
    [scope : CompletionScopes, term : CompletionTerms]
        \cup {[scope |-> <<"p", "r", "o", "m", "p", "t">>, term |-> <<>>]}

Call_autocomplete_tags ==
    /\ last.op = "complete_query"
    /\ \E rows \in autocomplete_tags(conn, last.input.scope \o last.input.term,
                                     last.kind_filter, last.limit) :
          last' = [last EXCEPT !.op = "completions", !.result = rows]
    /\ UNCHANGED <<storeVars, queueVars, threadVars>>

FacetsInit ==
    /\ db \in FacetStores
    /\ conn = db
    /\ writer = "none"
    /\ last \in [op : {"facet_query"}, tokens : FacetQueries, limit : 1..MaxLimit,
                 result : {<<>>}]
              \cup {c \in [op : {"complete_query"}, input : CompletionInputs,
                           kind_filter : {"none", "negative"}, limit : 1..MaxLimit,
                           result : {<<>>}] :
                        c.kind_filter = "none" \/ c.input.scope = <<>>}
    /\ phase = "running"
    /\ atBoot = EmptyStore
    /\ cl = [c \in Claimants |-> IdleClaimant]
    /\ wk = IdleWorker
    /\ ck = IdleWorker
    /\ sc = IdleScanner
    /\ paused = {}

FacetsNext == Call_collect_tag_facets \/ Call_autocomplete_tags

SpecFacets == FacetsInit /\ [][FacetsNext]_vars

\* The order the claim gives the kinds.
ClaimedPriority(kind) ==
    IF kind \in {"prompt", "rating", "character", "description"} THEN 1
    ELSE IF kind = "negative" THEN 2
    ELSE 3

\* The images a facet query matches.
FacetMatched ==
    {i \in Images :
        /\ db.images[i] # 0
        /\ \A n \in 1..Len(last.tokens) :
              Satisfies(db, i, last.tokens[n]) <=> ~last.tokens[n].exclude}

\* C26: collect_tag_facets returns one entry for each (norm, kind) pair on a
\* matched image and none twice, with the text of a row of the pair and its
\* frequency, in the order of kind priority (prompt, rating, character and
\* description first, negative next, other kinds last), then descending
\* frequency, then the display text, cut to the limit: an entry left out
\* ranks no higher than the last one returned.
C26_FacetOrder ==
    last.op = "facets" =>
        LET R == last.result
            pairs == FacetGroups(db, FacetMatched)
            rank(n) == ClaimedPriority(R[n].kind)
        IN /\ Len(R) = IF Cardinality(pairs) < last.limit
                       THEN Cardinality(pairs) ELSE last.limit
           /\ \A n, m \in 1..Len(R) :
                 (R[n].norm = R[m].norm /\ R[n].kind = R[m].kind) => n = m
           /\ \A n \in 1..Len(R) :
                 /\ [norm |-> R[n].norm, kind |-> R[n].kind] \in pairs
                 /\ R[n].norm = normalize_tag(R[n].tag)
                 /\ R[n].freq = GroupCount(db, FacetMatched,
                                           [norm |-> R[n].norm, kind |-> R[n].kind])
           /\ \A n \in 1..(Len(R) - 1) :
                 \/ rank(n) < rank(n + 1)
                 \/ /\ rank(n) = rank(n + 1)
                    /\ \/ R[n].freq > R[n + 1].freq
                       \/ /\ R[n].freq = R[n + 1].freq
                          /\ ~TextLess(R[n + 1].tag, R[n].tag)
           /\ \A g \in pairs :
                 (\A n \in 1..Len(R) : ~(R[n].norm = g.norm /\ R[n].kind = g.kind))
                    => \/ rank(Len(R)) < ClaimedPriority(g.kind)
                       \/ /\ rank(Len(R)) = ClaimedPriority(g.kind)
                          /\ R[Len(R)].freq >= GroupCount(db, FacetMatched, g)

\* Three pairs on the matched images and a limit of two: the facets returned
\* are a prompt pair of frequency 2 before a prompt pair of frequency 1, and a
\* negative pair is left out.
C26_Witness ==
    /\ last.op = "facets" /\ last.limit = 2
    /\ Cardinality(FacetGroups(db, FacetMatched)) = 3
    /\ Len(last.result) = 2
    /\ last.result[1].kind = "prompt" /\ last.result[1].freq = 2
    /\ last.result[2].kind = "prompt" /\ last.result[2].freq = 1
    /\ \E g \in FacetGroups(db, FacetMatched) : g.kind = "negative"

\* The substring matches of a completion query: the pairs whose key holds the
\* normalized term and whose kind passes the filter.
CompletionKind ==
    IF last.input.scope = <<"u", "c", ":">> THEN "negative" ELSE last.kind_filter
SubstringPairs ==
    {g \in FacetGroups(db, Images) :
        /\ g.kind \in FilterKinds(CompletionKind)
        /\ \E k \in 0..(Len(g.norm) - Len(last.input.term)) :
              SubSeq(g.norm, k + 1, k + Len(last.input.term)) = last.input.term}

\* C27: for a non-empty prefix autocomplete_tags returns prefix and substring
\* matches only, none twice, in descending order of frequency over the whole
\* list, at most `limit` of them and all of them when they are fewer; a
\* scope prefix or keyword without a term gives no result.
C27_Completions ==
    (last.op = "completions" /\ last.input.scope \o last.input.term # <<>>) =>
        LET R == last.result
        IN /\ Len(R) <= last.limit
           /\ \A n, m \in 1..Len(R) :
                 (R[n].norm = R[m].norm /\ R[n].kind = R[m].kind) => n = m
           /\ \A n \in 1..(Len(R) - 1) : R[n].freq >= R[n + 1].freq
           /\ last.input.term = <<>> => R = <<>>
           /\ (last.input.term # <<>> /\ last.input.scope # <<"p", "a", "t", "h", ":">>) =>
                 /\ \A n \in 1..Len(R) :
                       [norm |-> R[n].norm, kind |-> R[n].kind] \in SubstringPairs
                 /\ Len(R) = IF Cardinality(SubstringPairs) < last.limit
                             THEN Cardinality(SubstringPairs) ELSE last.limit

\* C27 with the ranking by frequency left out, for a term of two characters
\* or more without '_'.
C27_CompletionsUnranked ==
    (last.op = "completions" /\ last.input.scope \o last.input.term # <<>>) =>
        LET R == last.result
        IN /\ Len(R) <= last.limit
           /\ \A n, m \in 1..Len(R) :
                 (R[n].norm = R[m].norm /\ R[n].kind = R[m].kind) => n = m
           /\ last.input.term = <<>> => R = <<>>
           /\ (/\ Len(last.input.term) >= 2
               /\ \A n \in 1..Len(last.input.term) : last.input.term[n] # "_"
               /\ last.input.scope # <<"p", "a", "t", "h", ":">>) =>
                 /\ \A n \in 1..Len(R) :
                       [norm |-> R[n].norm, kind |-> R[n].kind] \in SubstringPairs
                 /\ Len(R) = IF Cardinality(SubstringPairs) < last.limit
                             THEN Cardinality(SubstringPairs) ELSE last.limit

\* ------------------------------------ rescans alternating with worker runs
\* The files never change: every rescan finds each image unchanged, and the
\* tagger returns the same tags for an image each time it is asked. A round
\* is one scan_pngs over all images followed by the auto-tag worker running
\* until no job is pending.
TaggerOutputs == [Images -> GeneratedLists]

\* ingest_path on the unchanged image i during a scan with no worker running:
\* the context agrees with the database.
RescanStore(d, i) ==
    LET missing_auto_rating == ~has_rating_tag(d, i)
        job_status == d.auto[i].status
        existing_auto_tags == has_auto_tags(d, i)
        op == ReconcileOp(job_status, existing_auto_tags, missing_auto_rating,
                          FALSE, FALSE, AutoTagMode)
        e == IF op = "ready" THEN SetStatus(d, "auto", i, "ready")
             ELSE IF op = "ensure"
             THEN ensure_job(d, "auto", i, CfgModel,
                             force_reset(job_status, existing_auto_tags,
                                         missing_auto_rating, FALSE))
             ELSE d
    IN ensure_job(e, "clip", i, CfgModel, FALSE)

\* scan_pngs: ingest_path for the next candidate.
Rescan_ingest ==
    LET i == sc.image + 1
        d == RescanStore(conn, i)
    IN /\ phase = "scan"
       /\ sc.image < NumImages
       /\ writer = "none"
       /\ Commit(d)
       /\ sc' = [sc EXCEPT !.image = i, !.ver = conn.images[i],
                           !.changed = FALSE,
                           !.job_status = conn.auto[i].status,
                           !.auto_tagged = has_auto_tags(conn, i),
                           !.before = conn.auto[i], !.after = d.auto[i]]
       /\ phase' = phase
       /\ UNCHANGED <<last, atBoot, cl, wk, ck, paused>>

\* scan_pngs is over (every file was observed, nothing is pruned); the worker
\* runs next.
Rescan_end ==
    /\ phase = "scan"
    /\ sc.image = NumImages
    /\ phase' = "work"
    /\ sc' = [sc EXCEPT !.image = 0]
    /\ UNCHANGED <<storeVars, last, atBoot, cl, wk, ck, paused>>

\* _process_batch: the claim; an empty claim ends the worker's run and the
\* next rescan begins.
Rescan_claim ==
    LET rows == ReserveRows(db, "auto", BatchSize)
    IN /\ phase = "work"
       /\ wk.pc = "idle"
       /\ writer = "none"
       /\ Commit(MarkProcessing(db, "auto", rows))
       /\ wk' = IF rows = <<>> THEN wk
                ELSE [wk EXCEPT !.pc = "generate", !.batch = rows, !.k = 1]
       /\ phase' = IF rows = <<>> THEN "scan" ELSE "work"
       /\ UNCHANGED <<last, atBoot, cl, ck, sc, paused>>

\* _process_batch, one row: generate_wd14_tags, apply_auto_tags and the mark
\* its result selects.
Rescan_process ==
    LET i == wk.batch[wk.k]
        T == last.tagger[i]
        status == IF ApplyResult(conn, i, T, AutoTagMode) = "skipped"
                  THEN "skipped" ELSE "ready"
        d == SetStatus(apply_auto_tags(conn, i, T, AutoTagMode), "auto", i, status)
    IN /\ phase = "work"
       /\ wk.pc = "generate"
       /\ writer = "none"
       /\ Fits(d)
       /\ Commit(d)
       /\ wk' = IF wk.k < Len(wk.batch)
                THEN [wk EXCEPT !.k = @ + 1, !.tags = T, !.status = status]
                ELSE [wk EXCEPT !.pc = "idle", !.tags = T, !.status = status]
       /\ phase' = phase
       /\ UNCHANGED <<last, atBoot, cl, ck, sc, paused>>

RescanInit ==
    /\ db = ScannedStore
    /\ conn = db
    /\ writer = "none"
    /\ last \in [op : {"tagger"}, tagger : TaggerOutputs]
    /\ phase \in {"scan", "work"}
    /\ atBoot = EmptyStore
    /\ cl = [c \in Claimants |-> IdleClaimant]
    /\ wk = IdleWorker
    /\ ck = IdleWorker
    /\ sc = IdleScanner
    /\ paused = {}

RescanNext ==
    \/ Rescan_ingest
    \/ Rescan_end
    \/ Rescan_claim
    \/ Rescan_process

\* The scanner's timer and the worker's loop keep running: a round that can
\* go on does.
SpecRescan == RescanInit /\ [][RescanNext]_vars /\ WF_vars(RescanNext)

\* C34: with files that never change, rescans alternating with worker runs
\* reach a fixed point: from some round on, no ingest of a rescan creates or
\* resets an auto-tag job.
C34_RescansSettle ==
    <>[][Rescan_ingest => (conn'.auto = conn.auto /\ conn'.autoQ = conn.autoQ)]_vars

\* C34, for the images whose tagger output holds a rating tag.
C34_RescansSettleWhenRated ==
    (\A i \in Images : \E n \in 1..Len(last.tagger[i]) : last.tagger[i][n].kind = "rating")
        => <>[][Rescan_ingest => (conn'.auto = conn.auto /\ conn'.autoQ = conn.autoQ)]_vars

====
